---- MODULE Spec2Model ----
(***************************************************************************)
(* Browser credential extraction of akiflow-cli (lib/auth/extract-token):  *)
(* the IndexedDB (LevelDB segment) token scanner, the Chromium encrypted   *)
(* cookie extractor, the Safari binary cookie parser and the orchestrator  *)
(* that combines them; and the task cache synchronisation                  *)
(* (lib/tasks-cache).                                                      *)
(*                                                                         *)
(* Strings and byte buffers are sequences of character / byte codes, so    *)
(* that decoding, splitting and matching are computed, not assumed.        *)
(***************************************************************************)
EXTENDS Integers, Sequences, FiniteSets, TLC

VARIABLES
    now,        \* the wall clock, in milliseconds since the epoch
    keychain,   \* OS secret store: browser id -> [status, output]
    cookies,    \* browser id -> the cookie store file [exists, db, rows, bytes]
    indexedDB,  \* browser id -> the akiflow LevelDB directory [exists, files]
    tmpFiles,   \* snapshot files present in the temp directory
    call,       \* the last completed call: what ran and what it returned
    running,    \* invocations of extractFromChrome in flight: id -> position
    cacheFiles, \* ~/.cache/af: what the two task cache files hold
    sync        \* the call of syncTasksCache: its position and its locals

vars == <<now, keychain, cookies, indexedDB, tmpFiles, call, running,
          cacheFiles, sync>>

(***************************************************************************)
(* Bounds of the model.                                                    *)
(***************************************************************************)
\* files in one LevelDB directory
MaxFiles == 2
\* token-shaped strings written into the files of one LevelDB directory
MaxMatches == 2
\* milliseconds the clock may advance between two evaluations of new Date()
MaxDrift == 1

(***************************************************************************)
(* String helpers (JavaScript String / Array methods the code calls).      *)
(***************************************************************************)
\* With(e, F) is F(e) with e evaluated once: LET x == e IN body, for a
\* value e that body uses more than once
With(e, F(_)) == CHOOSE v \in {F(x) : x \in {e}} : TRUE

Max(a, b) == IF a >= b THEN a ELSE b
Min(a, b) == IF a <= b THEN a ELSE b

\* s.slice(from - 1, to) with 1-based inclusive bounds, <<>> when empty
Slice(s, from, to) == IF from > to THEN <<>> ELSE SubSeq(s, from, to)

\* s.startsWith(p)
StartsWith(s, p) == Len(p) <= Len(s) /\ SubSeq(s, 1, Len(p)) = p

\* s.endsWith(p)
EndsWith(s, p) ==
    Len(p) <= Len(s) /\ SubSeq(s, Len(s) - Len(p) + 1, Len(s)) = p

\* is p found in s at (1-based) position i
MatchAt(s, p, i) ==
    /\ i >= 1
    /\ i + Len(p) - 1 <= Len(s)
    /\ \A k \in 1..Len(p) : s[i + k - 1] = p[k]

\* s.includes(p)
Includes(s, p) == \E i \in 1..(Len(s) + 1) : MatchAt(s, p, i)

\* s.split(".") for a one-character separator: the pieces between the
\* positions of the separator
RECURSIVE SplitFrom(_, _, _)
SplitFrom(s, sep, i) ==
    LET seps == {k \in i..Len(s) : s[k] = sep}
    IN  IF seps = {} THEN <<Slice(s, i, Len(s))>>
        ELSE LET k == CHOOSE x \in seps : \A y \in seps : x <= y
             IN  <<Slice(s, i, k - 1)>> \o SplitFrom(s, sep, k + 1)

Split(s, sep) == SplitFrom(s, sep, 1)

\* character classes
IsUpper(c) == c >= 65 /\ c <= 90
IsLower(c) == c >= 97 /\ c <= 122
IsDigit(c) == c >= 48 /\ c <= 57
IsAlnum(c) == IsUpper(c) \/ IsLower(c) \/ IsDigit(c)

(***************************************************************************)
(* atob (line 459): the forgiving-base64 decode of the HTML standard over  *)
(* the STANDARD alphabet A-Z a-z 0-9 + /.  The regular expression never    *)
(* lets '=' or white space into a segment, so padding removal is not       *)
(* modelled.  The result is [ok, bytes].                                   *)
(***************************************************************************)
\* the 6-bit value of a character of the standard alphabet, -1 for any other
B64StdValue(c) ==
    IF IsUpper(c) THEN c - 65
    ELSE IF IsLower(c) THEN c - 97 + 26
    ELSE IF IsDigit(c) THEN c - 48 + 52
    ELSE IF c = 43 THEN 62      \* '+'
    ELSE IF c = 47 THEN 63      \* '/'
    ELSE -1

\* bytes of the sextet sequence v (full groups of four, then the remainder)
RECURSIVE SextetsToBytes(_)
SextetsToBytes(v) ==
    IF Len(v) >= 4 THEN
        LET n == v[1] * 262144 + v[2] * 4096 + v[3] * 64 + v[4]
        IN  <<n \div 65536, (n \div 256) % 256, n % 256>>
                \o SextetsToBytes(Slice(v, 5, Len(v)))
    ELSE IF Len(v) = 3 THEN
        LET n == v[1] * 4096 + v[2] * 64 + v[3]
        IN  <<n \div 1024, (n \div 4) % 256>>
    ELSE IF Len(v) = 2 THEN
        LET n == v[1] * 64 + v[2]
        IN  <<n \div 16>>
    ELSE <<>>

\* [ok |-> FALSE] stands for the InvalidCharacterError atob throws
Atob(s) ==
    IF Len(s) % 4 = 1 \/ \E i \in 1..Len(s) : B64StdValue(s[i]) < 0
    THEN [ok |-> FALSE, bytes |-> <<>>]
    ELSE [ok |-> TRUE,
          bytes |-> SextetsToBytes(
                        SubSeq([i \in 1..Len(s) |-> B64StdValue(s[i])],
                               1, Len(s)))]

(***************************************************************************)
(* JSON.parse (line 459), for the documents the model feeds it: an object  *)
(* without white space whose members are "key":value with value an         *)
(* integer or a string without escapes.  Any other text is a SyntaxError:  *)
(* the result is [ok, obj], obj the sequence of the members                *)
(* [k |-> key, num |-> BOOLEAN, v |-> integer or string].                  *)
(***************************************************************************)
\* the position of the first '"' at or after i, 0 if none; a backslash or
\* a control character before it makes the string literal unsupported
RECURSIVE StringEnd(_, _)
StringEnd(s, i) ==
    IF i > Len(s) THEN 0
    ELSE IF s[i] = 34 THEN i
    ELSE IF s[i] = 92 \/ s[i] < 32 THEN 0
    ELSE StringEnd(s, i + 1)

\* the position after the run of digits starting at i
RECURSIVE DigitsEnd(_, _)
DigitsEnd(s, i) ==
    IF i <= Len(s) /\ IsDigit(s[i]) THEN DigitsEnd(s, i + 1) ELSE i

RECURSIVE DigitsValue(_, _, _, _)
DigitsValue(s, i, j, acc) ==
    IF i >= j THEN acc
    ELSE DigitsValue(s, i + 1, j, acc * 10 + (s[i] - 48))

\* a value at position i: [ok, num, v, next]
JSONValue(s, i) ==
    LET bad == [ok |-> FALSE, num |-> FALSE, v |-> <<>>, next |-> i]
    IN  IF i > Len(s) THEN bad
        ELSE IF s[i] = 34 THEN
            With(StringEnd(s, i + 1), LAMBDA e :
                IF e = 0 THEN bad
                ELSE [ok |-> TRUE, num |-> FALSE,
                      v |-> Slice(s, i + 1, e - 1), next |-> e + 1])
        ELSE
            LET neg == s[i] = 45
                d == IF neg THEN i + 1 ELSE i
            IN  With(DigitsEnd(s, d), LAMBDA e :
                    \* no digits, or a leading zero: not a JSON number
                    IF e = d \/ (e - d > 1 /\ s[d] = 48) THEN bad
                    ELSE [ok |-> TRUE, num |-> TRUE,
                          v |-> IF neg THEN 0 - DigitsValue(s, d, e, 0)
                                ELSE DigitsValue(s, d, e, 0),
                          next |-> e])

\* members from position i (just after '{' or ','), up to the closing '}'
JSONError == [ok |-> FALSE, obj |-> <<>>]

RECURSIVE JSONMembers(_, _, _)
JSONMembers(s, i, acc) ==
    IF i > Len(s) \/ s[i] # 34 THEN JSONError
    ELSE
        With(StringEnd(s, i + 1), LAMBDA ke :
            IF ke = 0 \/ ke + 1 > Len(s) \/ s[ke + 1] # 58 THEN JSONError
            ELSE
                With(JSONValue(s, ke + 2), LAMBDA val :
                    With([k |-> Slice(s, i + 1, ke - 1),
                          num |-> val.num, v |-> val.v], LAMBDA m :
                        IF ~val.ok \/ val.next > Len(s) THEN JSONError
                        ELSE IF s[val.next] = 125 THEN
                            IF val.next = Len(s)
                            THEN [ok |-> TRUE, obj |-> Append(acc, m)]
                            ELSE JSONError
                        ELSE IF s[val.next] = 44 THEN
                            JSONMembers(s, val.next + 1, Append(acc, m))
                        ELSE JSONError)))

JSONParse(s) ==
    IF Len(s) < 2 \/ s[1] # 123 THEN JSONError
    ELSE IF s = <<123, 125>> THEN [ok |-> TRUE, obj |-> <<>>]
    ELSE JSONMembers(s, 2, <<>>)

\* the index of the last member named "exp", 0 if there is none
ExpKey == <<101, 120, 112>>

RECURSIVE MemberExp(_, _)
MemberExp(obj, i) ==
    IF i = 0 THEN 0
    ELSE IF obj[i].k = ExpKey THEN i
    ELSE MemberExp(obj, i - 1)

(***************************************************************************)
(* Dates.  An optional Date is [kind, ms]: kind "none" for undefined,      *)
(* "date" for a valid Date, "invalid" for the Invalid Date (NaN) that      *)
(* new Date makes of a non-numeric exp.                                    *)
(***************************************************************************)
NoDate == [kind |-> "none", ms |-> 0]
DateOf(ms) == [kind |-> "date", ms |-> ms]
InvalidDate == [kind |-> "invalid", ms |-> 0]

\* payload.exp ? new Date(payload.exp * 1000) : undefined, of decoded bytes
DecodedExpiration(bytes) ==
    With(JSONParse(bytes), LAMBDA payload :
        IF ~payload.ok THEN NoDate
        ELSE
            With(MemberExp(payload.obj, Len(payload.obj)), LAMBDA e :
                IF e = 0 THEN NoDate
                ELSE IF payload.obj[e].num THEN
                    (IF payload.obj[e].v = 0 THEN NoDate
                     ELSE DateOf(payload.obj[e].v * 1000))
                ELSE IF payload.obj[e].v = <<>> THEN NoDate
                ELSE InvalidDate))

parseJWTExpiration(token) ==
    With(Split(token, 46), LAMBDA parts :
        IF Len(parts) # 3 \/ parts[2] = <<>> THEN NoDate
        ELSE
            With(Atob(parts[2]), LAMBDA decoded :
                IF ~decoded.ok THEN NoDate
                ELSE DecodedExpiration(decoded.bytes)))

(***************************************************************************)
(* The browser registry (browser-paths.ts).  A path is identified by the   *)
(* browser it belongs to; indexedDBPath is null for Safari only.           *)
(***************************************************************************)
BrowserType == {"chrome", "arc", "brave", "edge", "safari"}

BrowserPathOf(id) ==
    [id |-> id,
     hasIndexedDBPath |-> id # "safari",
     encryptionMethod |-> IF id = "safari" THEN "binary" ELSE "pbkdf2"]

\* an extractor that labels every token with the first browser
TokenBrowserFirst(browserPath) == "chrome"

\* browser: browserPath.id
TokenBrowser(browserPath) == browserPath.id

getAllBrowserPaths ==
    <<BrowserPathOf("chrome"), BrowserPathOf("arc"), BrowserPathOf("brave"),
      BrowserPathOf("edge"), BrowserPathOf("safari")>>

(***************************************************************************)
(* JWT_RS256_PATTERN and String.prototype.matchAll: the literal header, a  *)
(* dot, one or more of [A-Za-z0-9_-], a dot, one or more of [A-Za-z0-9_-]; *)
(* greedy, left to right, the search resuming where a match ended.         *)
(***************************************************************************)
JWT_HEADER ==
    <<101, 121, 74, 48, 101, 88, 65, 105, 79, 105, 74, 75, 86, 49, 81, 105,
      76, 67, 74, 104, 98, 71, 99, 105, 79, 105, 74, 83, 85, 122, 73, 49,
      78, 105, 74, 57>>

IsJwtChar(c) == IsAlnum(c) \/ c = 95 \/ c = 45

\* the position after the run of [A-Za-z0-9_-] starting at i
RECURSIVE JwtRunEnd(_, _)
JwtRunEnd(s, i) ==
    IF i <= Len(s) /\ IsJwtChar(s[i]) THEN JwtRunEnd(s, i + 1) ELSE i

\* the position after the match that starts at i, 0 if none starts there
JwtMatchEnd(s, i) ==
    IF ~MatchAt(s, JWT_HEADER, i) THEN 0
    ELSE
        LET d1 == i + Len(JWT_HEADER)
        IN  IF d1 > Len(s) \/ s[d1] # 46 THEN 0
            ELSE
                With(JwtRunEnd(s, d1 + 1), LAMBDA e2 :
                    IF e2 = d1 + 1 \/ e2 > Len(s) \/ s[e2] # 46 THEN 0
                    ELSE With(JwtRunEnd(s, e2 + 1), LAMBDA e3 :
                             IF e3 = e2 + 1 THEN 0 ELSE e3))

RECURSIVE MatchAllFrom(_, _)
MatchAllFrom(s, i) ==
    IF i > Len(s) THEN <<>>
    ELSE
        With(JwtMatchEnd(s, i), LAMBDA e :
            IF e = 0 THEN MatchAllFrom(s, i + 1)
            ELSE <<SubSeq(s, i, e - 1)>> \o MatchAllFrom(s, e))

MatchAll(s) == MatchAllFrom(s, 1)

\* Buffer.toString("utf-8"): ASCII bytes decode to themselves; the model's
\* files hold no multi-byte sequence, so any other byte is invalid and
\* decodes to U+FFFD
Utf8Decode(bytes) ==
    SubSeq([i \in 1..Len(bytes) |-> IF bytes[i] < 128 THEN bytes[i] ELSE 65533],
           1, Len(bytes))

\* new TextDecoder().decode(bytes): UTF-8 with a leading byte order mark
\* left out
UTF8_BOM == <<239, 187, 191>>
TextDecode(bytes) ==
    IF StartsWith(bytes, UTF8_BOM)
    THEN Utf8Decode(Slice(bytes, Len(UTF8_BOM) + 1, Len(bytes)))
    ELSE Utf8Decode(bytes)

(***************************************************************************)
(* extractFromIndexedDB.                                                   *)
(*                                                                         *)
(* A directory entry is [name, kind, content]: kind "file" is a readable   *)
(* regular file, "dir" a directory, "unreadable" a regular file whose      *)
(* read fails, "gone" an entry that vanished after the listing (statSync   *)
(* throws).                                                                *)
(*                                                                         *)
(* The clock is read once for every match (new Date(), line 508): the      *)
(* n-th evaluation of a call that starts at t0 happens at t0 + n * dt.     *)
(* The accumulator acc is [map, n, admitted, thrown]: the uniqueTokens     *)
(* Map in insertion order, the number of evaluations so far, the time at   *)
(* which each entry of the map was admitted (for the claims only), and     *)
(* whether an exception left the loop.                                     *)
(***************************************************************************)
ExtLog == <<46, 108, 111, 103>>
ExtLdb == <<46, 108, 100, 98>>

\* a scanner that takes no token for expired
IsExpiredNever(expiresAt, t) == FALSE

\* expiresAt ? expiresAt < new Date() : false
IsExpired(expiresAt, t) == expiresAt.kind = "date" /\ expiresAt.ms < t

\* a scanner that forgets which strings it has seen
MapHasNever(map, jwt) == FALSE

\* uniqueTokens.has(jwt)
MapHas(map, jwt) == \E i \in 1..Len(map) : map[i].token = jwt

\* if (!isExpired && !uniqueTokens.has(jwt)) uniqueTokens.set(jwt, ...)
Admits(map, jwt, expiresAt, t) == ~IsExpired(expiresAt, t) /\ ~MapHas(map, jwt)

RECURSIVE ScanMatches(_, _, _, _, _, _, _)
ScanMatches(matches, i, acc, browser, source, t0, dt) ==
    IF i > Len(matches) THEN acc
    ELSE
        LET jwt == matches[i]
            t == t0 + acc.n * dt
        IN  With(parseJWTExpiration(jwt), LAMBDA expiresAt :
                ScanMatches(matches, i + 1,
                    IF Admits(acc.map, jwt, expiresAt, t)
                    THEN [acc EXCEPT
                            !.map = Append(@, [browser |-> browser,
                                               token |-> jwt,
                                               source |-> source,
                                               expiresAt |-> expiresAt]),
                            !.admitted = Append(@, t),
                            !.n = @ + 1]
                    ELSE [acc EXCEPT !.n = @ + 1],
                    browser, source, t0, dt))

RECURSIVE ScanFiles(_, _, _, _, _, _)
ScanFiles(files, i, acc, browser, t0, dt) ==
    IF i > Len(files) THEN acc
    ELSE
        LET file == files[i]
            source == [store |-> "indexeddb", browser |-> browser, file |-> i]
        IN  IF ~EndsWith(file.name, ExtLog) /\ ~EndsWith(file.name, ExtLdb)
            THEN ScanFiles(files, i + 1, acc, browser, t0, dt)
            ELSE IF file.kind = "gone"          \* statSync throws
            THEN [acc EXCEPT !.thrown = TRUE]
            ELSE IF file.kind = "dir"           \* !stat.isFile()
            THEN ScanFiles(files, i + 1, acc, browser, t0, dt)
            ELSE IF file.kind = "unreadable"    \* readFileSync throws: caught
            THEN ScanFiles(files, i + 1, acc, browser, t0, dt)
            ELSE ScanFiles(files, i + 1,
                           ScanMatches(MatchAll(Utf8Decode(file.content)), 1,
                                       acc, browser, source, t0, dt),
                           browser, t0, dt)

\* a.expiresAt?.getTime() ?? 0, and whether it is NaN
TimeOf(tok) == IF tok.expiresAt.kind = "date" THEN tok.expiresAt.ms ELSE 0
TimeIsNaN(tok) == tok.expiresAt.kind = "invalid"

\* the comparator (a, b) => bTime - aTime says b goes before a
GoesBefore(b, a) ==
    ~TimeIsNaN(a) /\ ~TimeIsNaN(b) /\ TimeOf(b) - TimeOf(a) > 0

\* Array.prototype.sort is stable: x is inserted after the last element it
\* does not go before
RECURSIVE InsertSorted(_, _, _, _)
InsertSorted(sorted, x, at, i) ==
    \* at: position after which x goes, i: element of sorted examined
    IF i > Len(sorted) THEN
        Slice(sorted, 1, at) \o <<x>> \o Slice(sorted, at + 1, Len(sorted))
    ELSE IF GoesBefore(x, sorted[i]) THEN InsertSorted(sorted, x, at, i + 1)
    ELSE InsertSorted(sorted, x, i, i + 1)

RECURSIVE SortTokens(_, _, _)
SortTokens(seq, i, sorted) ==
    IF i > Len(seq) THEN sorted
    ELSE SortTokens(seq, i + 1, InsertSorted(sorted, seq[i], 0, 1))

NoTokens == [status |-> "ok", tokens |-> <<>>, evals |-> 0, admitted |-> <<>>]
Thrown == [status |-> "throw", tokens |-> <<>>, evals |-> 0, admitted |-> <<>>]

\* the result of the call: [status, tokens, evals, admitted]; admitted
\* lists, for the claims, each admitted token with the time it was admitted
extractFromIndexedDB(browserPath, dir, t0, dt) ==
    IF ~browserPath.hasIndexedDBPath THEN NoTokens
    ELSE IF ~dir.exists THEN NoTokens
    ELSE
        With(ScanFiles(dir.files, 1,
                       [map |-> <<>>, n |-> 0, admitted |-> <<>>,
                        thrown |-> FALSE],
                       TokenBrowser(browserPath), t0, dt),
             LAMBDA acc :
                IF acc.thrown THEN Thrown
                ELSE [status |-> "ok",
                      tokens |-> SortTokens(acc.map, 1, <<>>),
                      evals |-> acc.n,
                      admitted |-> SubSeq([k \in 1..Len(acc.map) |->
                                              [token |-> acc.map[k].token,
                                               at |-> acc.admitted[k]]],
                                          1, Len(acc.map))])

(***************************************************************************)
(* extractFromSafari and parseSafariCookie.                                *)
(*                                                                         *)
(* The file is a byte sequence; offsets are 0-based as in the code, so     *)
(* byte k of the buffer is bytes[k + 1].  A DataView read of four bytes at *)
(* offset off of a view of size bytes throws a RangeError unless           *)
(* off + 4 <= size; new DataView(buffer, start, size) and                  *)
(* new Uint8Array(buffer, start) throw a RangeError when the range is not  *)
(* inside the buffer.  A 32-bit field of 2^29 or more is read as 2^29:     *)
(* the code only adds such a value to an offset of the buffer and compares *)
(* the sum with a size of the buffer, and the buffers are far shorter.     *)
(***************************************************************************)
AKIFLOW_DOMAIN == <<97, 107, 105, 102, 108, 111, 119, 46, 99, 111, 109>>
COOKIE_NAME_PATTERN ==
    <<114, 101, 109, 101, 109, 98, 101, 114, 95, 119, 101, 98, 95>>
\* the lower-case form of an ASCII letter
ToLower(c) == IF IsUpper(c) THEN c + 32 ELSE c

SAFARI_MAGIC == <<99, 111, 111, 107>>

\* getUint32(off, true) and getUint32(off, false) on bytes known to exist
U32(b0, b1, b2, b3) ==
    IF b3 >= 32 THEN 32 * 16777216
    ELSE b0 + b1 * 256 + b2 * 65536 + b3 * 16777216
U32LE(bytes, off) ==
    U32(bytes[off + 1], bytes[off + 2], bytes[off + 3], bytes[off + 4])
U32BE(bytes, off) ==
    U32(bytes[off + 4], bytes[off + 3], bytes[off + 2], bytes[off + 1])

\* bytes[k] ?? 0 for a 0-based k
ByteOrZero(bytes, k) == IF k < Len(bytes) THEN bytes[k + 1] ELSE 0

\* readString: the bytes from absolute offset abs up to the first NUL or
\* the end of the BUFFER.  [ok, str, stop]: ok is FALSE for the RangeError
\* of a start beyond the buffer; stop is the offset at which the scan ended
StringStop(bytes, k) ==
    IF k >= Len(bytes) THEN k
    ELSE LET nuls == {j \in k..(Len(bytes) - 1) : bytes[j + 1] = 0}
         IN  IF nuls = {} THEN Len(bytes)
             ELSE CHOOSE j \in nuls : \A i \in nuls : j <= i

readString(bytes, abs) ==
    IF abs > Len(bytes) THEN [ok |-> FALSE, str |-> <<>>, stop |-> abs]
    ELSE With(StringStop(bytes, abs), LAMBDA stop :
             [ok |-> TRUE, str |-> TextDecode(Slice(bytes, abs + 1, stop)),
              stop |-> stop])

\* parseSafariCookie(pageData, cookieOffset, pageSize), the page starting
\* at pageStart.  kind is "null", "throw" or "cookie"; outside tells, for
\* the claims, whether a string was read at or beyond the end of the
\* record or of the page
NullCookie ==
    [kind |-> "null", domain |-> <<>>, name |-> <<>>, path |-> <<>>,
     value |-> <<>>, outside |-> FALSE]

parseSafariCookie(bytes, pageStart, cookieOffset, pageSize) ==
    IF cookieOffset + 48 > pageSize THEN NullCookie
    ELSE
        LET base == pageStart + cookieOffset
        IN  With(U32LE(bytes, base), LAMBDA cookieSize :
            IF cookieOffset + cookieSize > pageSize THEN NullCookie
            ELSE
                With(<<readString(bytes, base + U32LE(bytes, base + 16)),
                       readString(bytes, base + U32LE(bytes, base + 20)),
                       readString(bytes, base + U32LE(bytes, base + 24)),
                       readString(bytes, base + U32LE(bytes, base + 28))>>,
                     LAMBDA read :
                    \* read: domain, name, path, value
                    IF \E k \in 1..4 : ~read[k].ok
                    THEN [NullCookie EXCEPT !.kind = "throw", !.outside = TRUE]
                    ELSE [kind |-> "cookie", domain |-> read[1].str,
                          name |-> read[2].str, path |-> read[3].str,
                          value |-> read[4].str,
                          outside |-> \E k \in 1..4 :
                              read[k].stop >= Min(base + cookieSize,
                                                  pageStart + pageSize)]))

\* the result of a cookie extractor: [status, tokens, outside]
NoCookieTokens == [status |-> "ok", tokens |-> <<>>, outside |-> FALSE]
CookieThrow == [status |-> "throw", tokens |-> <<>>, outside |-> FALSE]

\* a parser that takes every cookie of the domain
CookieWantedByDomain(cookie) == Includes(cookie.domain, AKIFLOW_DOMAIN)

\* cookie.domain.includes(AKIFLOW_DOMAIN) &&
\* cookie.name.startsWith(COOKIE_NAME_PATTERN)
CookieWanted(cookie) ==
    /\ Includes(cookie.domain, AKIFLOW_DOMAIN)
    /\ StartsWith(cookie.name, COOKIE_NAME_PATTERN)

\* the loop over the cookie offsets of one page (lines 308-321)
RECURSIVE SafariCookies(_, _, _, _, _, _, _)
SafariCookies(bytes, pageStart, pageSize, offsets, i, acc, source) ==
    IF i > Len(offsets) THEN acc
    ELSE
        With(parseSafariCookie(bytes, pageStart, offsets[i], pageSize),
             LAMBDA cookie :
            IF cookie.kind = "throw"
            THEN [acc EXCEPT !.status = "throw", !.outside = TRUE]
            ELSE IF cookie.kind = "cookie" /\ CookieWanted(cookie)
            THEN SafariCookies(bytes, pageStart, pageSize, offsets, i + 1,
                    [acc EXCEPT
                        !.outside = @ \/ cookie.outside,
                        !.tokens = Append(@,
                            [browser |-> "safari", token |-> cookie.value,
                             source |-> source, expiresAt |-> NoDate])],
                    source)
            ELSE SafariCookies(bytes, pageStart, pageSize, offsets, i + 1,
                               [acc EXCEPT !.outside = @ \/ cookie.outside],
                               source))

\* the cookie offsets of a page (lines 300-305): [ok, offsets]
\* ok is FALSE when an offset lies beyond the end of the page (RangeError)
SafariOffsets(bytes, pageStart, pageSize, numCookies) ==
    LET held == (pageSize - 8) \div 4
        read == IF numCookies <= held THEN numCookies ELSE held
    IN  [ok |-> numCookies <= held,
         offsets |-> SubSeq([i \in 1..read |->
                                U32LE(bytes, pageStart + 8 + 4 * (i - 1))],
                            1, read)]

\* a parser that skips a page without moving on
AfterSkippedPageStays(offset, pageSize) == offset

\* offset += pageSize; continue
AfterSkippedPage(offset, pageSize) == offset + pageSize

\* the loop over the pages (lines 282-324)
RECURSIVE SafariPages(_, _, _, _, _, _)
SafariPages(bytes, pageSizes, pageIndex, offset, acc, source) ==
    IF pageIndex > Len(pageSizes) THEN acc
    ELSE
        LET pageSize == pageSizes[pageIndex]
        IN  IF pageSize = 0
            THEN SafariPages(bytes, pageSizes, pageIndex + 1, offset, acc, source)
            \* new DataView(buffer, pageStart, pageSize)
            ELSE IF offset + pageSize > Len(bytes)
            THEN [acc EXCEPT !.status = "throw"]
            \* pageData.getUint32(0, true)
            ELSE IF pageSize < 4 THEN [acc EXCEPT !.status = "throw"]
            ELSE IF U32LE(bytes, offset) # 256
            THEN SafariPages(bytes, pageSizes, pageIndex + 1,
                             AfterSkippedPage(offset, pageSize), acc, source)
            \* pageData.getUint32(4, true)
            ELSE IF pageSize < 8 THEN [acc EXCEPT !.status = "throw"]
            ELSE
                With(SafariOffsets(bytes, offset, pageSize,
                                   U32LE(bytes, offset + 4)),
                     LAMBDA offs :
                    IF ~offs.ok THEN [acc EXCEPT !.status = "throw"]
                    ELSE
                        With(SafariCookies(bytes, offset, pageSize,
                                           offs.offsets, 1, acc, source),
                             LAMBDA after :
                            IF after.status = "throw" THEN after
                            ELSE SafariPages(bytes, pageSizes, pageIndex + 1,
                                             offset + pageSize, after,
                                             source)))

\* the page sizes (lines 274-279): [ok, sizes]
\* ok is FALSE when a size lies beyond the end of the buffer (RangeError)
SafariPageSizes(bytes, numPages) ==
    LET held == (Len(bytes) - 8) \div 4
        read == IF numPages <= held THEN numPages ELSE held
    IN  [ok |-> numPages <= held,
         sizes |-> SubSeq([i \in 1..read |-> U32BE(bytes, 8 + 4 * (i - 1))],
                          1, read)]

\* String.fromCharCode(bytes[0] ?? 0, bytes[1] ?? 0, bytes[2] ?? 0,
\*                     bytes[3] ?? 0)
MagicOf(bytes) ==
    <<ByteOrZero(bytes, 0), ByteOrZero(bytes, 1), ByteOrZero(bytes, 2),
      ByteOrZero(bytes, 3)>>

\* a parser that compares the magic without regard to case
WrongMagicByCase(magic) ==
    SubSeq([i \in 1..Len(magic) |-> ToLower(magic[i])], 1, Len(magic))
        # SAFARI_MAGIC

\* magic !== "cook"
WrongMagic(magic) == magic # SAFARI_MAGIC

extractFromSafari(browserPath, file) ==
    IF ~file.exists THEN NoCookieTokens
    ELSE
        LET bytes == file.bytes
            magic == MagicOf(bytes)
            source == [store |-> "cookies", browser |-> browserPath.id,
                       file |-> 0]
        IN  IF WrongMagic(magic) THEN NoCookieTokens
            \* data.getUint32(4, false)
            ELSE IF Len(bytes) < 8 THEN CookieThrow
            ELSE
                With(SafariPageSizes(bytes, U32BE(bytes, 4)),
                     LAMBDA sizes :
                    IF ~sizes.ok THEN CookieThrow
                    ELSE SafariPages(bytes, sizes.sizes, 1,
                                     8 + 4 * Len(sizes.sizes),
                                     NoCookieTokens, source))

(***************************************************************************)
(* getKeychainPassword.  A secret-store entry is [status, output]: status  *)
(* "found" when `security find-generic-password` exits with 0 and prints   *)
(* output, "absent" when it exits with another code, "unavailable" when    *)
(* the host has no `security` executable: Bun.spawn then throws instead of *)
(* returning a process.                                                    *)
(***************************************************************************)
IsSpace(c) == c \in {9, 10, 11, 12, 13, 32}

\* String.prototype.trim
RECURSIVE TrimStart(_)
TrimStart(s) ==
    IF s # <<>> /\ IsSpace(s[1]) THEN TrimStart(Slice(s, 2, Len(s))) ELSE s
RECURSIVE TrimEnd(_)
TrimEnd(s) ==
    IF s # <<>> /\ IsSpace(s[Len(s)]) THEN TrimEnd(Slice(s, 1, Len(s) - 1))
    ELSE s
Trim(s) == TrimEnd(TrimStart(s))

\* the browsers that have an entry in serviceNames
HasServiceName(browserName) == browserName \in {"chrome", "arc", "brave", "edge"}

\* [isNull, password, threw]: threw when the promise rejects
NullPassword == [isNull |-> TRUE, password |-> <<>>, threw |-> FALSE]
SpawnError == [isNull |-> TRUE, password |-> <<>>, threw |-> TRUE]

\* Bun.spawn(["security", ...]) throws: the executable is not found
SpawnFails(entry) == entry.status = "unavailable"

getKeychainPassword(browserName, entry) ==
    IF ~HasServiceName(browserName) THEN NullPassword
    ELSE IF SpawnFails(entry) THEN SpawnError
    ELSE IF entry.status # "found" THEN NullPassword
    ELSE [isNull |-> FALSE, password |-> Trim(entry.output), threw |-> FALSE]

(***************************************************************************)
(* deriveKey and the AES-128-CBC of crypto.subtle.  The primitives are     *)
(* library code; the model keeps what the extractor relies on: a key of    *)
(* CHROME_KEY_LENGTH bytes computed from the password bytes, the salt and  *)
(* the iteration count, and a keyed, invertible block transformation       *)
(* chained from the IV block by block, with PKCS#7 padding checked and     *)
(* removed by decrypt itself.  Byte mixing is addition modulo 256 where    *)
(* the primitives use SHA-1 and XOR.                                       *)
(*                                                                         *)
(* What deriveKey hands to PBKDF2 is kept as it is: the password is a      *)
(* string of UTF-16 code units that TextEncoder encodes as UTF-8, an       *)
(* unpaired surrogate as U+FFFD; PBKDF2 keys HMAC-SHA-1 with these bytes,  *)
(* and HMAC pads a key shorter than its block with zero bytes (RFC 2104),  *)
(* so trailing zero bytes of the key do not count.  A key longer than the  *)
(* HMAC block (64 bytes) is hashed first; the model has no such password.  *)
(* The derivation itself is a positional checksum of the key bytes, the    *)
(* salt and the iteration count, spread over the bytes of the result.      *)
(***************************************************************************)
IsHighSurrogate(c) == c >= 55296 /\ c <= 56319
IsLowSurrogate(c) == c >= 56320 /\ c <= 57343

\* the UTF-8 bytes of one code point
Utf8Bytes(cp) ==
    IF cp < 128 THEN <<cp>>
    ELSE IF cp < 2048 THEN <<192 + (cp \div 64), 128 + (cp % 64)>>
    ELSE IF cp < 65536
    THEN <<224 + (cp \div 4096), 128 + ((cp \div 64) % 64), 128 + (cp % 64)>>
    ELSE <<240 + (cp \div 262144), 128 + ((cp \div 4096) % 64),
           128 + ((cp \div 64) % 64), 128 + (cp % 64)>>

\* TextEncoder.encode: a surrogate pair is one code point, a surrogate
\* without its partner is replaced by U+FFFD
RECURSIVE Utf8Encode(_)
Utf8Encode(str) ==
    IF str = <<>> THEN <<>>
    ELSE IF IsHighSurrogate(str[1]) /\ Len(str) >= 2 /\ IsLowSurrogate(str[2])
    THEN Utf8Bytes(65536 + (str[1] - 55296) * 1024 + (str[2] - 56320))
            \o Utf8Encode(Slice(str, 3, Len(str)))
    ELSE IF IsHighSurrogate(str[1]) \/ IsLowSurrogate(str[1])
    THEN Utf8Bytes(65533) \o Utf8Encode(Slice(str, 2, Len(str)))
    ELSE Utf8Bytes(str[1]) \o Utf8Encode(Slice(str, 2, Len(str)))

RECURSIVE StripTrailingZeros(_)
StripTrailingZeros(bytes) ==
    IF bytes # <<>> /\ bytes[Len(bytes)] = 0
    THEN StripTrailingZeros(Slice(bytes, 1, Len(bytes) - 1))
    ELSE bytes

\* an HMAC that tells a key from the same key followed by zero bytes
HmacKeyUnpadded(bytes) == bytes

\* the key HMAC works with, up to its zero padding: the bytes without
\* their trailing zero bytes
HmacKey(bytes) == StripTrailingZeros(bytes)

\* the positional checksum of bytes, from h on
RECURSIVE Checksum(_, _)
Checksum(bytes, h) ==
    IF bytes = <<>> THEN h
    ELSE Checksum(Slice(bytes, 2, Len(bytes)),
                  (h * 257 + bytes[1] + 1) % 4194304)
CHROME_SALT == <<115, 97, 108, 116, 121, 115, 97, 108, 116>>
CHROME_ITERATIONS == 1003
CHROME_KEY_LENGTH == 16

deriveKey(password) ==
    With(Checksum(HmacKey(Utf8Encode(password)),
                  Checksum(CHROME_SALT, CHROME_ITERATIONS)),
         LAMBDA seed :
            SubSeq([i \in 1..CHROME_KEY_LENGTH |->
                       IF i = 1 THEN seed % 256
                       ELSE IF i = 2 THEN (seed \div 256) % 256
                       ELSE IF i = 3 THEN (seed \div 65536) % 256
                       ELSE (seed + (seed \div 256) * i) % 256],
                   1, CHROME_KEY_LENGTH))

\* the 16-byte IV of spaces (line 133)
ChromeIV == [i \in 1..CHROME_KEY_LENGTH |-> 32]

\* one block of CBC decryption: undo the key, then the chaining
DecryptBlock(key, block, prev) ==
    [i \in 1..CHROME_KEY_LENGTH |->
        (block[i] + 512 - key[i] - prev[i]) % 256]

RECURSIVE DecryptBlocks(_, _, _)
DecryptBlocks(key, ct, prev) ==
    IF ct = <<>> THEN <<>>
    ELSE LET block == SubSeq(ct, 1, CHROME_KEY_LENGTH)
         IN  SubSeq(DecryptBlock(key, block, prev), 1, CHROME_KEY_LENGTH)
                \o DecryptBlocks(key, Slice(ct, CHROME_KEY_LENGTH + 1, Len(ct)),
                                 block)

\* crypto.subtle.decrypt({name: "AES-CBC", iv}, key, ciphertext):
\* [ok, bytes]; an OperationError (ok FALSE) for a ciphertext that is
\* empty or not whole blocks, or whose padding is not PKCS#7
AesCbcDecrypt(key, iv, ct) ==
    IF ct = <<>> \/ Len(ct) % CHROME_KEY_LENGTH # 0
    THEN [ok |-> FALSE, bytes |-> <<>>]
    ELSE
        With(DecryptBlocks(key, ct, iv), LAMBDA padded :
            LET pad == padded[Len(padded)]
            IN  IF pad < 1 \/ pad > CHROME_KEY_LENGTH
                   \/ \E k \in (Len(padded) - pad + 1)..Len(padded) :
                          padded[k] # pad
                THEN [ok |-> FALSE, bytes |-> <<>>]
                ELSE [ok |-> TRUE,
                      bytes |-> Slice(padded, 1, Len(padded) - pad)])

(***************************************************************************)
(* decryptChromeValue: [kind, str] with kind "null", "throw" (the promise  *)
(* rejects) or "string".                                                   *)
(***************************************************************************)
PrefixV10 == <<118, 49, 48>>
PrefixV11 == <<118, 49, 49>>

\* Uint8Array.prototype.slice(0, end) for an end that may be negative
SliceTo(bytes, end) ==
    LET e == IF end < 0 THEN Max(Len(bytes) + end, 0) ELSE Min(end, Len(bytes))
    IN  Slice(bytes, 1, e)

\* a value of any length is looked at
TooShortNever(encryptedValue) == FALSE

\* encryptedValue.length < 3
TooShort(encryptedValue) == Len(encryptedValue) < 3

\* String.fromCharCode(encryptedValue[0] ?? 0, encryptedValue[1] ?? 0,
\*                     encryptedValue[2] ?? 0)
PrefixOf(encryptedValue) ==
    <<ByteOrZero(encryptedValue, 0), ByteOrZero(encryptedValue, 1),
      ByteOrZero(encryptedValue, 2)>>

\* every value that starts with "v1" taken for a tagged one
IsVersionTagLoose(prefix) == SubSeq(prefix, 1, 2) = SubSeq(PrefixV10, 1, 2)

\* prefix === "v10" || prefix === "v11"
IsVersionTag(prefix) == prefix = PrefixV10 \/ prefix = PrefixV11

decryptChromeValue(encryptedValue, key) ==
    IF TooShort(encryptedValue) THEN [kind |-> "null", str |-> <<>>]
    ELSE
        LET prefix == PrefixOf(encryptedValue)
        IN  IF ~IsVersionTag(prefix)
            THEN [kind |-> "string", str |-> TextDecode(encryptedValue)]
            ELSE
                With(AesCbcDecrypt(key, ChromeIV,
                                   Slice(encryptedValue, 4, Len(encryptedValue))),
                     LAMBDA decrypted :
                    LET decryptedBytes == decrypted.bytes
                        \* decryptedBytes[decryptedBytes.length - 1] ?? 0
                        paddingLength ==
                            IF decryptedBytes = <<>> THEN 0
                            ELSE decryptedBytes[Len(decryptedBytes)]
                    IN  IF ~decrypted.ok THEN [kind |-> "throw", str |-> <<>>]
                        ELSE [kind |-> "string",
                              str |-> TextDecode(
                                  SliceTo(decryptedBytes,
                                          Len(decryptedBytes) - paddingLength))])

(***************************************************************************)
(* extractFromChrome.                                                      *)
(*                                                                         *)
(* A cookie store is [exists, db, rows, bytes]: db "sqlite" for a database *)
(* with a cookies table, "other" for a file the query fails on (not a      *)
(* database, or no such table).  A row is [host_key, name, value,          *)
(* encrypted_value].  The WHERE clause uses SQLite's LIKE: % matches any   *)
(* run of characters, _ any single character, letters match without        *)
(* regard to case.                                                         *)
(***************************************************************************)
RECURSIVE SqlLikeFrom(_, _, _, _)
SqlLikeFrom(p, i, s, j) ==
    IF i > Len(p) THEN j > Len(s)
    ELSE IF p[i] = 37 THEN
        \E k \in j..(Len(s) + 1) : SqlLikeFrom(p, i + 1, s, k)
    ELSE IF p[i] = 95 THEN
        j <= Len(s) /\ SqlLikeFrom(p, i + 1, s, j + 1)
    ELSE j <= Len(s) /\ ToLower(p[i]) = ToLower(s[j])
            /\ SqlLikeFrom(p, i + 1, s, j + 1)

SqlLike(s, p) == SqlLikeFrom(p, 1, s, 1)

\* WHERE host_key LIKE '%akiflow.com%' AND name LIKE 'remember_web_%'
RowSelected(row) ==
    /\ SqlLike(row.host_key, <<37>> \o AKIFLOW_DOMAIN \o <<37>>)
    /\ SqlLike(row.name, COOKIE_NAME_PATTERN \o <<37>>)

SelectRows(rows) == SelectSeq(rows, RowSelected)

\* an extractor that goes on without a password
PasswordMissingNever(pw) == FALSE

\* if (!password): null, or the empty string
PasswordMissing(pw) == pw.isNull \/ pw.password = <<>>

\* a loop that reads the plaintext column only when the row has no
\* encrypted value
UsesPlaintextOfBareRow(tokenValue, row) ==
    row.encrypted_value = <<>> /\ row.value # <<>>

\* if (!tokenValue && row.value): null and "" are both falsy
UsesPlaintext(tokenValue, row) ==
    /\ tokenValue.kind = "null" \/ tokenValue.str = <<>>
    /\ row.value # <<>>

\* the value one row resolves to (lines 206-216): [kind, str], kind "none"
\* when tokenValue stays falsy, "throw" when decryptChromeValue rejects
RowValue(row, key) ==
    With(IF row.encrypted_value # <<>>
         THEN decryptChromeValue(row.encrypted_value, key)
         ELSE [kind |-> "null", str |-> <<>>],
         LAMBDA dec :
            IF dec.kind = "throw" THEN dec
            ELSE IF UsesPlaintext(dec, row)
            THEN [kind |-> "string", str |-> row.value]
            ELSE IF dec.kind = "string" /\ dec.str # <<>> THEN dec
            ELSE [kind |-> "none", str |-> <<>>])

\* the loop over the rows (lines 205-225)
RECURSIVE ChromeRows(_, _, _, _, _)
ChromeRows(rows, i, key, acc, browser) ==
    IF i > Len(rows) THEN acc
    ELSE
        With(RowValue(rows[i], key), LAMBDA v :
            IF v.kind = "throw" THEN [acc EXCEPT !.status = "throw"]
            ELSE IF v.kind = "string"
            THEN ChromeRows(rows, i + 1, key,
                    [acc EXCEPT !.tokens = Append(@,
                        [browser |-> browser, token |-> v.str,
                         source |-> [store |-> "cookies", browser |-> browser,
                                     file |-> 0],
                         expiresAt |-> NoDate])],
                    browser)
            ELSE ChromeRows(rows, i + 1, key, acc, browser))

\* the temporary copy: `${browserPath.id}_cookies_${Date.now()}.db`
TempPath(browser, t) == [browser |-> browser, stamp |-> t]

\* an extractor that raises when there is no password
WithoutPasswordThrows(tmp) ==
    [status |-> "throw", tokens |-> <<>>, outside |-> FALSE, tmp |-> tmp]

\* if (!password) { return tokens; }: nothing was collected or copied yet
WithoutPassword(tmp) ==
    [status |-> "ok", tokens |-> <<>>, outside |-> FALSE, tmp |-> tmp]

\* the result [status, tokens, outside, tmp]: tmp is the temp directory
\* when the call ends, t being what Date.now() returns at line 181
extractFromChrome(browserPath, file, entry, t, tmp) ==
    LET tempPath == TempPath(browserPath.id, t)
        copied == tmp \cup {tempPath}
        none == [status |-> "ok", tokens |-> <<>>, outside |-> FALSE]
        empty == [status |-> "ok", tokens |-> <<>>, outside |-> FALSE,
                  tmp |-> tmp]
        throws == [status |-> "throw", tokens |-> <<>>, outside |-> FALSE,
                   tmp |-> copied]
    IN  IF ~file.exists THEN empty
        ELSE
            With(getKeychainPassword(browserPath.id, entry), LAMBDA password :
                \* await getKeychainPassword rejects: nothing was copied
                IF password.threw
                THEN [status |-> "throw", tokens |-> <<>>, outside |-> FALSE,
                      tmp |-> tmp]
                ELSE IF PasswordMissing(password) THEN WithoutPassword(tmp)
                \* new Database / database.query / query.all throw: no unlink
                ELSE IF file.db # "sqlite" THEN throws
                ELSE
                    With(ChromeRows(SelectRows(file.rows), 1,
                                    deriveKey(password.password), none,
                                    TokenBrowser(browserPath)),
                         LAMBDA r :
                            IF r.status = "throw" THEN throws
                            \* database.close(); unlinkSync(tempPath)
                            ELSE [status |-> "ok", tokens |-> r.tokens,
                                  outside |-> FALSE,
                                  tmp |-> copied \ {tempPath}]))

(***************************************************************************)
(* scanBrowsers and extractFromBrowser.                                    *)
(*                                                                         *)
(* env is the machine the call runs on: [keychain, cookies, indexedDB].    *)
(* The state st threaded through a call is [status, tokens, t, tmp,        *)
(* admitted, invoked, pushed, outside]: t the clock, tmp the temp          *)
(* directory, and, for the claims, the admission log of the IndexedDB      *)
(* scans, the extractor calls made with what each returned, and what each  *)
(* browser added to the result.                                            *)
(***************************************************************************)
StartOfCall(t, tmp) ==
    [status |-> "ok", tokens |-> <<>>, t |-> t, tmp |-> tmp,
     admitted |-> <<>>, invoked |-> <<>>, pushed |-> <<>>, outside |-> FALSE]

\* the exception leaves the caller: nothing is returned
Rejected(st) == [st EXCEPT !.status = "throw", !.tokens = <<>>]

\* await extractFromIndexedDB(browserPath), as the caller sees it
AfterIndexedDB(browserPath, idb, st, dt) ==
    [st EXCEPT
        !.t = @ + idb.evals * dt,
        !.admitted = @ \o SubSeq([k \in 1..Len(idb.admitted) |->
                                     [browser |-> browserPath.id,
                                      token |-> idb.admitted[k].token,
                                      at |-> idb.admitted[k].at]],
                                 1, Len(idb.admitted)),
        !.invoked = Append(@, [fn |-> "extractFromIndexedDB",
                               browser |-> browserPath.id,
                               status |-> idb.status,
                               tokens |-> idb.tokens])]

\* a scan that falls back to the cookies whatever IndexedDB returned
IndexedDBNeverSuffices(indexedDBTokens) == FALSE

\* if (indexedDBTokens.length > 0)
IndexedDBSuffices(indexedDBTokens) == Len(indexedDBTokens) > 0

\* a dispatch that takes every cookie store for a Chromium database
IsPbkdf2Always(browserPath) == TRUE

\* browserPath.encryptionMethod === "pbkdf2"
IsPbkdf2(browserPath) == browserPath.encryptionMethod = "pbkdf2"

\* the dispatch on browserPath.encryptionMethod
CookieTokens(browserPath, env, st) ==
    IF IsPbkdf2(browserPath) THEN
        With(extractFromChrome(browserPath, env.cookies[browserPath.id],
                               env.keychain[browserPath.id], st.t, st.tmp),
             LAMBDA r :
                [fn |-> "extractFromChrome", status |-> r.status,
                 tokens |-> r.tokens, tmp |-> r.tmp, outside |-> FALSE])
    ELSE IF browserPath.encryptionMethod = "binary" THEN
        With(extractFromSafari(browserPath, env.cookies[browserPath.id]),
             LAMBDA r :
                [fn |-> "extractFromSafari", status |-> r.status,
                 tokens |-> IF r.status = "ok" THEN r.tokens ELSE <<>>,
                 tmp |-> st.tmp, outside |-> r.outside])
    ELSE [fn |-> "none", status |-> "ok", tokens |-> <<>>, tmp |-> st.tmp,
          outside |-> FALSE]

AfterCookies(browserPath, r, st) ==
    [st EXCEPT
        !.tmp = r.tmp,
        !.outside = @ \/ r.outside,
        !.invoked = IF r.fn = "none" THEN @
                    ELSE Append(@, [fn |-> r.fn, browser |-> browserPath.id,
                                    status |-> r.status, tokens |-> r.tokens])]

\* a scan that goes on to the extractor whether the cookie store is there
\* or not
CookieStoreMissingNever(file) == FALSE

\* !existsSync(browserPath.cookiePath)
CookieStoreMissing(file) == ~file.exists

\* a scan that leaves out a token string it has already collected
PushUnique(st, browser, tokens) ==
    [st EXCEPT !.tokens = @ \o SelectSeq(tokens, LAMBDA x :
                                  \A k \in 1..Len(st.tokens) :
                                      st.tokens[k].token # x.token),
               !.pushed = Append(@, [browser |-> browser, tokens |-> tokens])]

\* allTokens.push(...tokens)
Push(st, browser, tokens) ==
    [st EXCEPT !.tokens = @ \o tokens,
               !.pushed = Append(@, [browser |-> browser, tokens |-> tokens])]

\* the loop of scanBrowsers over browserPaths, from the i-th on
RECURSIVE ScanBrowsersFrom(_, _, _, _, _)
ScanBrowsersFrom(browserPaths, i, env, st, dt) ==
    IF i > Len(browserPaths) THEN st
    ELSE
        With(browserPaths[i], LAMBDA browserPath :
        With(extractFromIndexedDB(browserPath, env.indexedDB[browserPath.id],
                                  st.t, dt),
             LAMBDA indexedDBTokens :
        With(AfterIndexedDB(browserPath, indexedDBTokens, st, dt), LAMBDA st1 :
            IF indexedDBTokens.status = "throw" THEN Rejected(st1)
            ELSE IF IndexedDBSuffices(indexedDBTokens.tokens)
            THEN ScanBrowsersFrom(browserPaths, i + 1, env,
                    Push(st1, browserPath.id, indexedDBTokens.tokens), dt)
            ELSE IF CookieStoreMissing(env.cookies[browserPath.id])
            THEN ScanBrowsersFrom(browserPaths, i + 1, env, st1, dt)
            ELSE
                With(CookieTokens(browserPath, env, st1), LAMBDA tokens :
                With(AfterCookies(browserPath, tokens, st1), LAMBDA st2 :
                    IF tokens.status = "throw" THEN Rejected(st2)
                    ELSE ScanBrowsersFrom(browserPaths, i + 1, env,
                            Push(st2, browserPath.id, tokens.tokens), dt))))))

\* a scan over the Chromium browsers alone
scanChromiumBrowsers(env, t, tmp, dt) ==
    ScanBrowsersFrom(SelectSeq(getAllBrowserPaths, IsPbkdf2), 1, env,
                     StartOfCall(t, tmp), dt)

scanBrowsers(env, t, tmp, dt) ==
    ScanBrowsersFrom(getAllBrowserPaths, 1, env, StartOfCall(t, tmp), dt)

\* browserPaths.find((b) => b.id === browser): the index, 0 for undefined
FindBrowserPath(browser) ==
    LET found == {i \in 1..Len(getAllBrowserPaths) :
                     getAllBrowserPaths[i].id = browser}
    IN  IF found = {} THEN 0 ELSE CHOOSE i \in found : \A j \in found : i <= j

extractFromBrowser(browser, env, t, tmp, dt) ==
    With(FindBrowserPath(browser), LAMBDA at :
        IF at = 0 THEN StartOfCall(t, tmp)
        ELSE
            With(getAllBrowserPaths[at], LAMBDA browserPath :
            With(extractFromIndexedDB(browserPath,
                                      env.indexedDB[browserPath.id], t, dt),
                 LAMBDA indexedDBTokens :
            With(AfterIndexedDB(browserPath, indexedDBTokens,
                                StartOfCall(t, tmp), dt),
                 LAMBDA st1 :
                IF indexedDBTokens.status = "throw" THEN Rejected(st1)
                ELSE IF Len(indexedDBTokens.tokens) > 0
                THEN Push(st1, browserPath.id, indexedDBTokens.tokens)
                ELSE IF CookieStoreMissing(env.cookies[browserPath.id]) THEN st1
                ELSE
                    With(CookieTokens(browserPath, env, st1), LAMBDA tokens :
                    With(AfterCookies(browserPath, tokens, st1), LAMBDA st2 :
                        IF tokens.status = "throw" THEN Rejected(st2)
                        ELSE Push(st2, browserPath.id, tokens.tokens)))))))

(***************************************************************************)
(* Inputs of the IndexedDB scanner: token-shaped strings built from JSON   *)
(* payloads, and directory listings holding them.                          *)
(***************************************************************************)
\* the character of the URL-safe alphabet for a 6-bit value
B64UrlChar(v) ==
    IF v < 26 THEN 65 + v
    ELSE IF v < 52 THEN 97 + (v - 26)
    ELSE IF v < 62 THEN 48 + (v - 52)
    ELSE IF v = 62 THEN 45      \* '-'
    ELSE 95                     \* '_'

\* unpadded base64url of a byte sequence (RFC 4648 section 5, RFC 7515)
RECURSIVE Base64UrlEncode(_)
Base64UrlEncode(b) ==
    IF Len(b) >= 3 THEN
        LET n == b[1] * 65536 + b[2] * 256 + b[3]
        IN  <<B64UrlChar(n \div 262144), B64UrlChar((n \div 4096) % 64),
              B64UrlChar((n \div 64) % 64), B64UrlChar(n % 64)>>
                \o Base64UrlEncode(Slice(b, 4, Len(b)))
    ELSE IF Len(b) = 2 THEN
        LET n == (b[1] * 256 + b[2]) * 4
        IN  <<B64UrlChar(n \div 4096), B64UrlChar((n \div 64) % 64),
              B64UrlChar(n % 64)>>
    ELSE IF Len(b) = 1 THEN
        LET n == b[1] * 16
        IN  <<B64UrlChar(n \div 64), B64UrlChar(n % 64)>>
    ELSE <<>>

\* the 6-bit value of a character of the URL-safe alphabet, -1 for others
B64UrlValue(c) ==
    IF IsUpper(c) THEN c - 65
    ELSE IF IsLower(c) THEN c - 97 + 26
    ELSE IF IsDigit(c) THEN c - 48 + 52
    ELSE IF c = 45 THEN 62
    ELSE IF c = 95 THEN 63
    ELSE -1

\* base64url decoding of an unpadded segment
Base64UrlDecode(s) ==
    IF Len(s) % 4 = 1 \/ \E i \in 1..Len(s) : B64UrlValue(s[i]) < 0
    THEN [ok |-> FALSE, bytes |-> <<>>]
    ELSE [ok |-> TRUE,
          bytes |-> SextetsToBytes(
                        SubSeq([i \in 1..Len(s) |-> B64UrlValue(s[i])],
                               1, Len(s)))]

\* decimal digits of a natural number
RECURSIVE Digits(_)
Digits(n) == IF n < 10 THEN <<48 + n>> ELSE Digits(n \div 10) \o <<48 + (n % 10)>>

\* {"exp":N}
JsonExp(n) == <<123, 34, 101, 120, 112, 34, 58>> \o Digits(n) \o <<125>>
\* {"?":1,"exp":N}: its encoding holds '_'
JsonQExp(n) ==
    <<123, 34, 63, 34, 58, 49, 44, 34, 101, 120, 112, 34, 58>>
        \o Digits(n) \o <<125>>
\* {"sub":1}
JsonSub == <<123, 34, 115, 117, 98, 34, 58, 49, 125>>

\* header.payload.signature with the payload the encoding of a JSON text
JwtOf(json) ==
    JWT_HEADER \o <<46>> \o Base64UrlEncode(json) \o <<46, 115, 105, 103>>

\* the clock when a model run starts: the epoch plus 5 s, so that exp
\* claims of 3 (past), 5 (the present second) and 10 s fall around it
StartTime == 5000

TokenTable ==
    <<JwtOf(JsonExp(10)), JwtOf(JsonExp(5)), JwtOf(JsonExp(3)), JwtOf(JsonSub),
      JwtOf(JsonQExp(3))>>

TokenIds == 1..Len(TokenTable)

\* sequences over S of length at most n
RECURSIVE SeqsUpTo(_, _)
SeqsUpTo(S, n) ==
    IF n = 0 THEN {<<>>}
    ELSE LET shorter == SeqsUpTo(S, n - 1)
         IN  shorter \cup {Append(q, x) : q \in shorter, x \in S}

\* the bytes of a segment file holding the tokens ids: each token is
\* followed by a NUL and a byte that is not valid UTF-8
RECURSIVE SegmentBytes(_)
SegmentBytes(ids) ==
    IF ids = <<>> THEN <<0, 255>>
    ELSE SegmentBytes(Slice(ids, 1, Len(ids) - 1))
            \o TokenTable[ids[Len(ids)]] \o <<0, 255>>

\* file names: a digit and an extension
FileName(i, ext) == <<48 + i>> \o ext
ExtTxt == <<46, 116, 120, 116>>

\* what a directory entry can be: a segment file with ids written in it,
\* or one of four entries the scanner must not read tokens from
EntryShapes(m) ==
    {[kind |-> "segment", ids |-> q] : q \in SeqsUpTo(TokenIds, m)}
    \cup {[kind |-> k, ids |-> <<>>] : k \in {"txt", "dir", "unreadable", "gone"}}

\* listings of at most f entries holding at most m tokens in all
RECURSIVE Listings(_, _)
Listings(f, m) ==
    IF f = 0 THEN {<<>>}
    ELSE {<<>>} \cup
         UNION {{<<e>> \o rest : rest \in Listings(f - 1, m - Len(e.ids))} :
                   e \in EntryShapes(m)}

\* the directory of a listing.  Segment files are named .log and .ldb in
\* turn; the other entries hold token 1 all the same, so that reading
\* them would show
DirOf(listing) ==
    [exists |-> TRUE,
     files |-> [i \in 1..Len(listing) |->
        LET k == listing[i].kind
        IN  [name |-> FileName(i, IF k = "txt" THEN ExtTxt
                                  ELSE IF k = "gone" \/ i % 2 = 0 THEN ExtLdb
                                  ELSE ExtLog),
             kind |-> IF k \in {"segment", "txt"} THEN "file" ELSE k,
             content |-> IF k = "segment" THEN SegmentBytes(listing[i].ids)
                         ELSE SegmentBytes(<<1>>)]]]

NoDirectory == [exists |-> FALSE, files |-> <<>>]

Directories ==
    {NoDirectory} \cup {DirOf(l) : l \in Listings(MaxFiles, MaxMatches)}

(***************************************************************************)
(* Inputs of the Safari parser: binary cookie files built from pages of    *)
(* cookies as the format lays them out, and damaged copies of one of them. *)
(***************************************************************************)
MaxPages == 2
MaxCookies == 2

LE32(v) ==
    <<v % 256, (v \div 256) % 256, (v \div 65536) % 256, v \div 16777216>>
BE32(v) ==
    <<v \div 16777216, (v \div 65536) % 256, (v \div 256) % 256, v % 256>>
Zeros(n) == SubSeq([i \in 1..n |-> 0], 1, n)
CString(str) == str \o <<0>>

\* a record: the 56-byte header, then domain, name, path and value
CookieRecord(c) ==
    LET d == 56
        n == d + Len(c.domain) + 1
        p == n + Len(c.name) + 1
        v == p + Len(c.path) + 1
        size == v + Len(c.value) + 1
    IN  LE32(size) \o Zeros(12) \o LE32(d) \o LE32(n) \o LE32(p) \o LE32(v)
            \o Zeros(24) \o CString(c.domain) \o CString(c.name)
            \o CString(c.path) \o CString(c.value)

RECURSIVE ConcatAll(_)
ConcatAll(seqs) ==
    IF seqs = <<>> THEN <<>>
    ELSE seqs[1] \o ConcatAll(Slice(seqs, 2, Len(seqs)))

\* a page: the marker, the cookie count, the offsets, four zero bytes and
\* the records.  The marker is written 00 01 00 00 ("le", the bytes
\* getUint32(0, true) reads as 0x00000100) or 00 00 01 00 ("be")
PageBytes(page) ==
    LET recs == SubSeq([i \in 1..Len(page.cookies) |->
                           CookieRecord(page.cookies[i])],
                       1, Len(page.cookies))
        first == 8 + 4 * Len(recs) + 4
        offs == SubSeq([i \in 1..Len(recs) |->
                           LE32(first + Len(ConcatAll(SubSeq(recs, 1, i - 1))))],
                       1, Len(recs))
    IN  (IF page.marker = "le" THEN LE32(256) ELSE BE32(256))
            \o LE32(Len(recs)) \o ConcatAll(offs) \o Zeros(4) \o ConcatAll(recs)

\* the file: magic, page count, page sizes, pages, and an 8-byte trailer
FileBytes(pages) ==
    LET ps == SubSeq([i \in 1..Len(pages) |-> PageBytes(pages[i])],
                     1, Len(pages))
    IN  SAFARI_MAGIC \o BE32(Len(ps))
            \o ConcatAll(SubSeq([i \in 1..Len(ps) |-> BE32(Len(ps[i]))],
                                1, Len(ps)))
            \o ConcatAll(ps) \o <<7, 23, 5, 0, 0, 0, 75, 98>>

DotAkiflow == <<46>> \o AKIFLOW_DOMAIN
RememberWeb1 == COOKIE_NAME_PATTERN \o <<49>>

\* the cookies the model files are made of: a session cookie with the
\* value "tok", one with the empty value, one of another site, and one of
\* the application under another name
SafariCookieTable ==
    <<[domain |-> DotAkiflow, name |-> RememberWeb1, path |-> <<47>>,
       value |-> <<116, 111, 107>>],
      [domain |-> DotAkiflow, name |-> RememberWeb1, path |-> <<47>>,
       value |-> <<>>],
      [domain |-> <<120, 46, 105, 111>>, name |-> RememberWeb1,
       path |-> <<47>>, value |-> <<110, 111>>],
      [domain |-> DotAkiflow, name |-> <<115, 105, 100>>, path |-> <<47>>,
       value |-> <<110, 111>>]>>

CookiesOf(ids) == SubSeq([i \in 1..Len(ids) |-> SafariCookieTable[ids[i]]],
                         1, Len(ids))

PageShapes(m) ==
    {[marker |-> k, cookies |-> CookiesOf(ids)] :
        k \in {"le", "be"}, ids \in SeqsUpTo(1..Len(SafariCookieTable), m)}

\* at most p pages holding at most m cookies in all
RECURSIVE PageLists(_, _)
PageLists(p, m) ==
    IF p = 0 THEN {<<>>}
    ELSE {<<>>} \cup
         UNION {{<<e>> \o rest : rest \in PageLists(p - 1, m - Len(e.cookies))} :
                   e \in PageShapes(m)}

SafariFile(bytes) ==
    [exists |-> TRUE, db |-> "other", rows |-> <<>>, bytes |-> bytes]

\* the file that is damaged: a page of one cookie, a page of two
SafariTemplate ==
    FileBytes(<<[marker |-> "le", cookies |-> CookiesOf(<<1>>)],
                [marker |-> "le", cookies |-> CookiesOf(<<3, 1>>)]>>)

\* the 32-bit values written over a field
PokeValues == {0, 1, 3, 47, 56, 255, 256, 1000, 65536}

Poke(bytes, off, word) ==
    Slice(bytes, 1, off) \o word \o Slice(bytes, off + 5, Len(bytes))

\* every truncation of the template, and every copy with four bytes at
\* any offset after the magic overwritten by a value in either byte order
DamagedFiles ==
    {Slice(SafariTemplate, 1, k) : k \in 0..(Len(SafariTemplate) - 1)}
    \cup {Poke(SafariTemplate, off, w) :
            off \in 4..(Len(SafariTemplate) - 4),
            w \in {LE32(v) : v \in PokeValues} \cup {BE32(v) : v \in PokeValues}}

\* files of another format: the template with its first four bytes
\* replaced, among them "Cook" and "cooK", and "coo" followed by a NUL
ForeignMagics ==
    {<<67, 111, 111, 107>>, <<99, 111, 111, 75>>, <<99, 111, 111, 0>>,
     <<0, 99, 111, 111>>, <<83, 81, 76, 105>>, <<0, 0, 0, 0>>}

ForeignFiles ==
    {Poke(SafariTemplate, 0, m) : m \in ForeignMagics}
    \cup {Slice(m, 1, k) : m \in ForeignMagics, k \in 0..4}

SafariFiles ==
    {FileBytes(pl) : pl \in PageLists(MaxPages, MaxCookies)}
    \cup DamagedFiles \cup ForeignFiles

(***************************************************************************)
(* Inputs of the Chromium path: cookie databases of at most MaxRows rows   *)
(* out of a table, and secret-store entries.                               *)
(***************************************************************************)
MaxRows == 2

\* PKCS#7 padding and the encryption decrypt inverts
Pkcs7Pad(pt) ==
    LET pad == CHROME_KEY_LENGTH - (Len(pt) % CHROME_KEY_LENGTH)
    IN  pt \o SubSeq([i \in 1..pad |-> pad], 1, pad)

RECURSIVE EncryptBlocks(_, _, _)
EncryptBlocks(key, pt, prev) ==
    IF pt = <<>> THEN <<>>
    ELSE LET block == SubSeq([i \in 1..CHROME_KEY_LENGTH |->
                                 (pt[i] + key[i] + prev[i]) % 256],
                             1, CHROME_KEY_LENGTH)
         IN  block \o EncryptBlocks(key, Slice(pt, CHROME_KEY_LENGTH + 1, Len(pt)),
                                    block)

\* what the browser stores for a value under a password
ChromeEncrypt(password, value) ==
    PrefixV10 \o EncryptBlocks(deriveKey(password), Pkcs7Pad(value), ChromeIV)

SafeStoragePassword == <<112, 119>>         \* "pw"
OtherPassword == <<120, 120>>               \* "xx"

CookieRow(host, name, value, enc) ==
    [host_key |-> host, name |-> name, value |-> value, encrypted_value |-> enc]

\* the rows the model databases are made of
ChromeRowTable ==
    <<\* 1: encrypted, the value ends in a byte 0x02
      CookieRow(DotAkiflow, RememberWeb1, <<>>,
                ChromeEncrypt(SafeStoragePassword, <<116, 111, 107, 110, 2>>)),
      \* 2: encrypted, the value is "secret"
      CookieRow(DotAkiflow, RememberWeb1, <<>>,
                ChromeEncrypt(SafeStoragePassword,
                              <<115, 101, 99, 114, 101, 116>>)),
      \* 3: encrypted under another password
      CookieRow(DotAkiflow, RememberWeb1, <<>>,
                ChromeEncrypt(OtherPassword, <<115, 101, 99, 114, 101, 116>>)),
      \* 4: the prefix and five bytes
      CookieRow(DotAkiflow, RememberWeb1, <<>>,
                PrefixV10 \o <<1, 2, 3, 4, 5>>),
      \* 5: no prefix: "raw"
      CookieRow(DotAkiflow, RememberWeb1, <<>>, <<114, 97, 119>>),
      \* 6: a one-byte blob and the plaintext "plain"
      CookieRow(DotAkiflow, RememberWeb1, <<112, 108, 97, 105, 110>>, <<1>>),
      \* 7: the plaintext "cookie" only
      CookieRow(DotAkiflow, RememberWeb1, <<99, 111, 111, 107, 105, 101>>,
                <<>>),
      \* 8: the plaintext " " only
      CookieRow(DotAkiflow, RememberWeb1, <<32>>, <<>>),
      \* 9: another site
      CookieRow(<<120, 46, 105, 111>>, RememberWeb1,
                <<111, 116, 104, 101, 114>>, <<>>),
      \* 10: the name "Remember-web-1"
      CookieRow(DotAkiflow,
                <<82, 101, 109, 101, 109, 98, 101, 114, 45, 119, 101, 98, 45,
                  49>>,
                <<108, 105, 107, 101>>, <<>>),
      \* 11: neither a plaintext nor a blob
      CookieRow(DotAkiflow, RememberWeb1, <<>>, <<>>),
      \* 12: the two-byte blob "v1" and no plaintext
      CookieRow(DotAkiflow, RememberWeb1, <<>>, <<118, 49>>)>>

RowsOf(ids) == SubSeq([i \in 1..Len(ids) |-> ChromeRowTable[ids[i]]],
                      1, Len(ids))

ChromeStore(ids) ==
    [exists |-> TRUE, db |-> "sqlite", rows |-> RowsOf(ids), bytes |-> <<>>]

\* a file the query fails on
NotADatabase ==
    [exists |-> TRUE, db |-> "other", rows |-> <<>>, bytes |-> <<110, 111>>]

NoCookieFile == [exists |-> FALSE, db |-> "other", rows |-> <<>>, bytes |-> <<>>]

ChromeStores ==
    {NoCookieFile, NotADatabase}
    \cup {ChromeStore(ids) : ids \in SeqsUpTo(1..Len(ChromeRowTable), MaxRows)}

\* `security` prints the password and a newline, prints only a newline,
\* or exits with a code other than 0
NoPassword == [status |-> "absent", output |-> <<>>]
FoundPassword == [status |-> "found", output |-> SafeStoragePassword \o <<10>>]
BlankPassword == [status |-> "found", output |-> <<10>>]
\* a host other than macOS: no `security` executable
NoSecurityTool == [status |-> "unavailable", output |-> <<>>]

(***************************************************************************)
(* The state machine.  call records the last completed call: the function, *)
(* its browser argument, the clock when it started, whether it returned    *)
(* ("ok") or threw ("throw"), the tokens returned, and, for the claims,    *)
(* the admission log of the IndexedDB scans, the extractor calls made,     *)
(* what each browser added to the result, and whether a string was read    *)
(* beyond its record or page.  For a call of getKeychainPassword or        *)
(* decryptChromeValue, input holds the arguments and output what the call  *)
(* returned.                                                               *)
(***************************************************************************)
NoCall ==
    [fn |-> "none", browser |-> "none", start |-> 0, status |-> "ok",
     tokens |-> <<>>, admitted |-> <<>>, invoked |-> <<>>, pushed |-> <<>>,
     outside |-> FALSE, input |-> <<>>, output |-> <<>>]

env == [keychain |-> keychain, cookies |-> cookies, indexedDB |-> indexedDB]

\* what loadTasksCacheFile and loadTasksCacheMeta read when the file is
\* missing or is not JSON; neither cache file is there
NoCacheFile == [readable |-> FALSE, version |-> 0, tasksById |-> {}]
NoCacheMeta ==
    [readable |-> FALSE, version |-> 0, syncToken |-> "", lastFullSyncAt |-> 0,
     lastSyncAt |-> 0, taskCount |-> 0]
NoCacheFiles == [cache |-> NoCacheFile, meta |-> NoCacheMeta]

\* no call of syncTasksCache was made
NoSync ==
    [pc |-> "idle", awaiting |-> FALSE, request |-> "", cursor |-> "",
     token |-> "", safety |-> 0, tasksById |-> {},
     lastFullSyncAt |-> 0]

\* invocations of extractFromChrome that run concurrently, each at a
\* position pc: "idle", "opened" (the snapshot is made and queried),
\* "returned" or "rejected"
Invocations == {1, 2}
Idle == [pc |-> "idle", browser |-> "none", tempPath |-> TempPath("none", 0),
         rows |-> <<>>, key |-> <<>>, tokens |-> <<>>]
NoneRunning == [p \in Invocations |-> Idle]

\* one call of extractFromIndexedDB(browserPath of b); the clock advances
\* by dt for every match evaluated
ExtractFromIndexedDB(b, dt) ==
    /\ call.fn = "none"
    /\ \E r \in {extractFromIndexedDB(BrowserPathOf(b), indexedDB[b], now, dt)} :
           /\ call' = [NoCall EXCEPT
                          !.fn = "extractFromIndexedDB", !.browser = b,
                          !.start = now, !.status = r.status,
                          !.tokens = r.tokens,
                          !.admitted = SubSeq([k \in 1..Len(r.admitted) |->
                                                  [browser |-> b,
                                                   token |-> r.admitted[k].token,
                                                   at |-> r.admitted[k].at]],
                                              1, Len(r.admitted))]
           /\ now' = now + r.evals * dt
    /\ UNCHANGED <<keychain, cookies, indexedDB, tmpFiles, running,
                 cacheFiles, sync>>

\* one call of extractFromSafari(browserPath of b)
ExtractFromSafari(b) ==
    /\ call.fn = "none"
    /\ \E r \in {extractFromSafari(BrowserPathOf(b), cookies[b])} :
           call' = [NoCall EXCEPT
                      !.fn = "extractFromSafari", !.browser = b,
                      !.start = now, !.status = r.status,
                      !.tokens = IF r.status = "ok" THEN r.tokens ELSE <<>>,
                      !.outside = r.outside]
    /\ UNCHANGED <<now, keychain, cookies, indexedDB, tmpFiles, running,
                 cacheFiles, sync>>

\* one call of extractFromChrome(browserPath of b)
ExtractFromChrome(b) ==
    /\ call.fn = "none"
    /\ \E r \in {extractFromChrome(BrowserPathOf(b), cookies[b], keychain[b],
                                    now, tmpFiles)} :
           /\ call' = [NoCall EXCEPT
                          !.fn = "extractFromChrome", !.browser = b,
                          !.start = now, !.status = r.status,
                          !.tokens = r.tokens]
           /\ tmpFiles' = r.tmp
    /\ UNCHANGED <<now, keychain, cookies, indexedDB, running,
                 cacheFiles, sync>>

\* one call of getKeychainPassword(b)
GetKeychainPassword(b) ==
    /\ call.fn = "none"
    /\ \E r \in {getKeychainPassword(b, keychain[b])} :
           call' = [NoCall EXCEPT
                      !.fn = "getKeychainPassword", !.browser = b,
                      !.start = now,
                      !.status = IF r.threw THEN "throw" ELSE "ok",
                      !.output = r]
    /\ UNCHANGED <<now, keychain, cookies, indexedDB, tmpFiles, running,
                 cacheFiles, sync>>

\* what a call of scanBrowsers or extractFromBrowser leaves
Completes(fn, b, st) ==
    /\ call' = [fn |-> fn, browser |-> b, start |-> now, status |-> st.status,
                tokens |-> st.tokens, admitted |-> st.admitted,
                invoked |-> st.invoked, pushed |-> st.pushed,
                outside |-> st.outside, input |-> <<>>, output |-> <<>>]
    /\ now' = st.t
    /\ tmpFiles' = st.tmp
    /\ UNCHANGED <<keychain, cookies, indexedDB, running,
                 cacheFiles, sync>>

ScanBrowsers(dt) ==
    /\ call.fn = "none"
    /\ \E st \in {scanBrowsers(env, now, tmpFiles, dt)} :
           Completes("scanBrowsers", "none", st)

ExtractFromBrowser(b, dt) ==
    /\ call.fn = "none"
    /\ \E st \in {extractFromBrowser(b, env, now, tmpFiles, dt)} :
           Completes("extractFromBrowser", b, st)

\* the scanner alone, over every directory of the bounds, for Chrome
InitIDB ==
    /\ now = StartTime
    /\ keychain = [b \in BrowserType |-> NoPassword]
    /\ cookies = [b \in BrowserType |-> NoCookieFile]
    /\ \E d \in Directories :
          indexedDB = [b \in BrowserType |->
                          IF b = "chrome" THEN d ELSE NoDirectory]
    /\ tmpFiles = {}
    /\ call = NoCall
    /\ running = NoneRunning
    /\ cacheFiles = NoCacheFiles
    /\ sync = NoSync

NextIDB ==
    \E b \in {"chrome", "safari"}, dt \in {0, MaxDrift} :
        ExtractFromIndexedDB(b, dt)

SpecIDB == InitIDB /\ [][NextIDB]_vars

\* the Safari parser alone, over every file of the bounds
InitSafari ==
    /\ now = StartTime
    /\ keychain = [b \in BrowserType |-> NoPassword]
    /\ \E f \in {NoCookieFile} \cup {SafariFile(bytes) : bytes \in SafariFiles} :
          cookies = [b \in BrowserType |->
                        IF b = "safari" THEN f ELSE NoCookieFile]
    /\ indexedDB = [b \in BrowserType |-> NoDirectory]
    /\ tmpFiles = {}
    /\ call = NoCall
    /\ running = NoneRunning
    /\ cacheFiles = NoCacheFiles
    /\ sync = NoSync

NextSafari == ExtractFromSafari("safari")

SpecSafari == InitSafari /\ [][NextSafari]_vars

\* the Chromium path alone, over every database of the bounds
InitChrome ==
    /\ now = StartTime
    /\ \/ \E e \in {NoPassword, FoundPassword, BlankPassword} :
             keychain = [b \in BrowserType |->
                            IF b = "chrome" THEN e ELSE NoPassword]
       \* a host without the `security` executable
       \/ keychain = [b \in BrowserType |-> NoSecurityTool]
    /\ \E f \in ChromeStores :
          cookies = [b \in BrowserType |->
                        IF b = "chrome" THEN f ELSE NoCookieFile]
    /\ indexedDB = [b \in BrowserType |-> NoDirectory]
    /\ tmpFiles = {}
    /\ call = NoCall
    /\ running = NoneRunning
    /\ cacheFiles = NoCacheFiles
    /\ sync = NoSync

NextChrome ==
    \/ \E b \in {"chrome", "arc"} : ExtractFromChrome(b)
    \/ \E b \in {"chrome", "arc", "safari"} : GetKeychainPassword(b)

SpecChrome == InitChrome /\ [][NextChrome]_vars

(***************************************************************************)
(* decryptChromeValue alone, over stored values of three kinds: every      *)
(* byte string of at most MaxBlob bytes over an alphabet that spells the   *)
(* tags, what the browser stores for a plaintext under a password (the     *)
(* tag v10 or v11, then the AES-128-CBC encryption of the padded UTF-8     *)
(* bytes with the IV of spaces), and longer untagged values.  The          *)
(* plaintexts are ASCII, whose UTF-8 bytes are the character codes.        *)
(***************************************************************************)
MaxBlob == 3

BlobAlphabet == {118, 49, 48, 50, 97, 200}         \* v 1 0 2 a and 0xC8


\* the stored form of plaintext under password, with the tag
Sealed(tag, password, plaintext) ==
    tag \o EncryptBlocks(deriveKey(password), Pkcs7Pad(Utf8Encode(plaintext)),
                         ChromeIV)

Digits16 == <<48, 49, 50, 51, 52, 53, 54, 55, 56, 57, 97, 98, 99, 100, 101, 102>>

Plaintexts ==
    {<<>>, <<97>>, <<116, 111, 107>>, <<115, 101, 99, 114, 101, 116>>,
     <<116, 111, 107, 110, 2>>, <<116, 111, 107, 0>>,
     SubSeq(Digits16, 1, 15), Digits16, Digits16 \o <<103>>}

Passwords == {SafeStoragePassword, OtherPassword}

StoredValues ==
    SeqsUpTo(BlobAlphabet, MaxBlob)
    \cup {Sealed(tag, pw, pt) :
             tag \in {PrefixV10, PrefixV11}, pw \in Passwords,
             pt \in Plaintexts}
    \cup {<<112, 108, 97, 105, 110, 116, 101, 120, 116>>,     \* "plaintext"
          <<118, 49, 50>> \o Digits16,                         \* "v12..."
          <<86, 49, 48>> \o Digits16,                          \* "V10..."
          PrefixV10 \o <<1, 2, 3, 4, 5>>}

\* one call of decryptChromeValue on the arguments in call.input
DecryptChromeValue ==
    /\ call.fn = "none"
    /\ \E r \in {decryptChromeValue(call.input.encryptedValue,
                                     call.input.key)} :
           call' = [call EXCEPT
                      !.fn = "decryptChromeValue",
                      !.start = now,
                      !.status = IF r.kind = "throw" THEN "throw" ELSE "ok",
                      !.output = r]
    /\ UNCHANGED <<now, keychain, cookies, indexedDB, tmpFiles, running,
                 cacheFiles, sync>>

InitDecrypt ==
    /\ now = StartTime
    /\ keychain = [b \in BrowserType |-> NoPassword]
    /\ cookies = [b \in BrowserType |-> NoCookieFile]
    /\ indexedDB = [b \in BrowserType |-> NoDirectory]
    /\ tmpFiles = {}
    /\ \E v \in StoredValues, pw \in Passwords :
          call = [NoCall EXCEPT
                     !.input = [encryptedValue |-> v, key |-> deriveKey(pw)]]
    /\ running = NoneRunning
    /\ cacheFiles = NoCacheFiles
    /\ sync = NoSync

NextDecrypt == DecryptChromeValue

SpecDecrypt == InitDecrypt /\ [][NextDecrypt]_vars

(***************************************************************************)
(* deriveKey alone, on two passwords at a time: every string of at most    *)
(* MaxPassword code units out of two letters, NUL, an unpaired high        *)
(* surrogate and U+FFFD.                                                   *)
(***************************************************************************)
MaxPassword == 2

PasswordAlphabet == {112, 119, 0, 55296, 65533}

DerivePasswords == SeqsUpTo(PasswordAlphabet, MaxPassword)

\* deriveKey(password) and deriveKey(other), for the pair in call.input
DeriveKey ==
    /\ call.fn = "none"
    /\ call' = [call EXCEPT
                   !.fn = "deriveKey",
                   !.start = now,
                   !.output = [key |-> deriveKey(call.input.password),
                               other |-> deriveKey(call.input.other)]]
    /\ UNCHANGED <<now, keychain, cookies, indexedDB, tmpFiles, running,
                 cacheFiles, sync>>

InitDerive ==
    /\ now = StartTime
    /\ keychain = [b \in BrowserType |-> NoPassword]
    /\ cookies = [b \in BrowserType |-> NoCookieFile]
    /\ indexedDB = [b \in BrowserType |-> NoDirectory]
    /\ tmpFiles = {}
    /\ \E p \in DerivePasswords, q \in DerivePasswords :
          call = [NoCall EXCEPT !.input = [password |-> p, other |-> q]]
    /\ running = NoneRunning
    /\ cacheFiles = NoCacheFiles
    /\ sync = NoSync

NextDerive == DeriveKey

SpecDerive == InitDerive /\ [][NextDerive]_vars

(***************************************************************************)
(* Two invocations of extractFromChrome at once, in two processes or in    *)
(* one (where they interleave at the awaits of the row loop).  What one    *)
(* invocation does to the temp directory happens in two steps: ChromeOpen  *)
(* is lines 167-203 (the checks, the name from Date.now(), copyFileSync,   *)
(* new Database and query.all(), which run without an await between the    *)
(* name and the query), ChromeClose is lines 205-232 (the row loop,        *)
(* database.close() and unlinkSync).  The clock ticks between steps or     *)
(* does not: Date.now() counts whole milliseconds.                         *)
(***************************************************************************)
\* milliseconds the clock may advance while the invocations run
MaxTicks == 1

Tick ==
    /\ now < StartTime + MaxTicks
    /\ now' = now + 1
    /\ UNCHANGED <<keychain, cookies, indexedDB, tmpFiles, call, running,
                 cacheFiles, sync>>

\* invocation p at position pc
Ends(p, b, pc) == [running EXCEPT ![p] = [Idle EXCEPT !.pc = pc, !.browser = b]]

ChromeOpen(p, b) ==
    /\ running[p].pc = "idle"
    /\ \E password \in {getKeychainPassword(b, keychain[b])} :
          IF ~cookies[b].exists
          THEN running' = Ends(p, b, "returned") /\ UNCHANGED tmpFiles
          ELSE IF password.threw
          THEN running' = Ends(p, b, "rejected") /\ UNCHANGED tmpFiles
          ELSE IF PasswordMissing(password)
          THEN running' = Ends(p, b, "returned") /\ UNCHANGED tmpFiles
          ELSE
              \* copyFileSync replaces a file of the same name
              /\ tmpFiles' = tmpFiles \cup {TempPath(b, now)}
              /\ running' =
                    [running EXCEPT ![p] =
                        [pc |-> IF cookies[b].db # "sqlite" THEN "rejected"
                                ELSE "opened",
                         browser |-> b,
                         tempPath |-> TempPath(b, now),
                         rows |-> IF cookies[b].db # "sqlite" THEN <<>>
                                  ELSE SelectRows(cookies[b].rows),
                         key |-> deriveKey(password.password),
                         tokens |-> <<>>]]
    /\ UNCHANGED <<now, keychain, cookies, indexedDB, call,
                 cacheFiles, sync>>

ChromeClose(p) ==
    /\ running[p].pc = "opened"
    /\ \E r \in {ChromeRows(running[p].rows, 1, running[p].key,
                             [status |-> "ok", tokens |-> <<>>,
                              outside |-> FALSE],
                             running[p].browser)} :
          IF r.status = "throw"
          THEN /\ running' = [running EXCEPT ![p].pc = "rejected"]
               /\ UNCHANGED tmpFiles
          \* unlinkSync throws ENOENT for a file that is no longer there
          ELSE IF running[p].tempPath \notin tmpFiles
          THEN /\ running' = [running EXCEPT ![p].pc = "rejected"]
               /\ UNCHANGED tmpFiles
          ELSE /\ running' = [running EXCEPT ![p].pc = "returned",
                                             ![p].tokens = r.tokens]
               /\ tmpFiles' = tmpFiles \ {running[p].tempPath}
    /\ UNCHANGED <<now, keychain, cookies, indexedDB, call,
                 cacheFiles, sync>>

InitConcurrent == InitChrome

NextConcurrent ==
    \/ Tick
    \/ \E p \in Invocations : ChromeOpen(p, "chrome")
    \/ \E p \in Invocations : ChromeClose(p)

SpecConcurrent == InitConcurrent /\ [][NextConcurrent]_vars

(***************************************************************************)
(* A machine with several browsers, for scanBrowsers and                   *)
(* extractFromBrowser.  Chrome and Safari range over the profiles below;   *)
(* Arc has either nothing or both stores; Brave and Edge are not           *)
(* installed.                                                              *)
(***************************************************************************)
Segment(ids) == [kind |-> "segment", ids |-> ids]

IndexedDBProfiles ==
    {NoDirectory,
     DirOf(<<Segment(<<3>>)>>),
     DirOf(<<Segment(<<3, 1, 4>>)>>),
     DirOf(<<Segment(<<2>>), Segment(<<5, 2>>)>>),
     DirOf(<<[kind |-> "gone", ids |-> <<>>]>>)}

ChromeCookieProfiles ==
    {NoCookieFile, ChromeStore(<<7>>), ChromeStore(<<4, 7>>), ChromeStore(<<8>>)}

SafariCookieProfiles ==
    {NoCookieFile,
     SafariFile(FileBytes(<<[marker |-> "le", cookies |-> CookiesOf(<<1>>)]>>)),
     SafariFile(FileBytes(<<[marker |-> "le", cookies |-> CookiesOf(<<2>>)]>>)),
     SafariFile(Slice(SafariTemplate, 1, 40))}

Init ==
    /\ now = StartTime
    /\ \E c \in {NoPassword, FoundPassword} :
          keychain = [b \in BrowserType |->
                         IF b = "chrome" THEN c
                         ELSE IF b = "arc" THEN FoundPassword
                         ELSE NoPassword]
    /\ \E c \in ChromeCookieProfiles, s \in SafariCookieProfiles,
          a \in {NoCookieFile, ChromeStore(<<6>>)} :
          cookies = [b \in BrowserType |->
                        IF b = "chrome" THEN c
                        ELSE IF b = "safari" THEN s
                        ELSE IF b = "arc" THEN a
                        ELSE NoCookieFile]
    /\ \E c \in IndexedDBProfiles,
          a \in {NoDirectory, DirOf(<<Segment(<<1>>)>>)} :
          indexedDB = [b \in BrowserType |->
                          IF b = "chrome" THEN c
                          ELSE IF b = "arc" THEN a
                          ELSE NoDirectory]
    /\ tmpFiles = {}
    /\ call = NoCall
    /\ running = NoneRunning
    /\ cacheFiles = NoCacheFiles
    /\ sync = NoSync

Next ==
    \/ \E dt \in {0, MaxDrift} : ScanBrowsers(dt)
    \/ \E b \in BrowserType \cup {"firefox"}, dt \in {0, MaxDrift} :
          ExtractFromBrowser(b, dt)
    \/ \E b \in BrowserType, dt \in {0, MaxDrift} : ExtractFromIndexedDB(b, dt)

Spec == Init /\ [][Next]_vars

(***************************************************************************)
(* The same machine with the calls repeated: a process that calls          *)
(* scanBrowsers or extractFromBrowser again after the call has ended, the  *)
(* stores being what they were.  The clock goes on from where the last     *)
(* call left it and the temp directory is what the last call left.         *)
(***************************************************************************)
\* milliseconds after which no further call is made
MaxElapsed == 4

ScanBrowsersAgain(dt) ==
    /\ call.fn = "scanBrowsers"
    /\ now < StartTime + MaxElapsed
    /\ \E st \in {scanBrowsers(env, now, tmpFiles, dt)} :
           Completes("scanBrowsers", "none", st)

ExtractFromBrowserAgain(dt) ==
    /\ call.fn = "extractFromBrowser"
    /\ now < StartTime + MaxElapsed
    /\ \E st \in {extractFromBrowser(call.browser, env, now, tmpFiles, dt)} :
           Completes("extractFromBrowser", call.browser, st)

NextRepeated ==
    \/ \E dt \in {0, MaxDrift} : ScanBrowsers(dt)
    \/ \E b \in BrowserType \cup {"firefox"}, dt \in {0, MaxDrift} :
          ExtractFromBrowser(b, dt)
    \/ \E dt \in {0, MaxDrift} : ScanBrowsersAgain(dt)
    \/ \E dt \in {0, MaxDrift} : ExtractFromBrowserAgain(dt)

SpecRepeated == Init /\ [][NextRepeated]_vars

(***************************************************************************)
(* syncTasksCache (lib/tasks-cache).                                       *)
(*                                                                         *)
(* A task is [id, removed]: removed when deleted_at or trashed_at is set.  *)
(* tasksById is the set of the ids it has a task for.  A sync token is a   *)
(* string, "" standing for an absent one (undefined and "" are alike       *)
(* falsy).  A response of GET /v5/tasks is [data, sync_token,              *)
(* has_next_page].  sync is the call: pc "idle", "full" (in the loop of    *)
(* fullSyncTasksCache), "incremental" (in the loop of                      *)
(* incrementalSyncTasksCache), "done" (returned) or "failed" (rejected);   *)
(* awaiting while a getTasks request is in flight, request being the       *)
(* sync_token it was sent with; cursor is cursor / currentToken, token is  *)
(* lastSyncToken / newToken.                                               *)
(***************************************************************************)
CACHE_VERSION == 1

\* if (safety > 1000) break
SafetyLimit == 1000

\* null unless the file parses and has the version of this build
loadTasksCacheFile(files) ==
    IF files.cache.readable /\ files.cache.version = CACHE_VERSION
    THEN files.cache ELSE NoCacheFile

loadTasksCacheMeta(files) ==
    IF files.meta.readable /\ files.meta.version = CACHE_VERSION
    THEN files.meta ELSE NoCacheMeta

\* options.forceFull || !existingCache || !existingMeta || ... ||
\* !existingMeta.syncToken
needsFull(forceFull, existingCache, existingMeta) ==
    \/ forceFull
    \/ ~existingCache.readable
    \/ ~existingMeta.readable
    \/ existingCache.version # CACHE_VERSION
    \/ existingMeta.version # CACHE_VERSION
    \/ existingMeta.syncToken = ""

RECURSIVE applyDelta(_, _)
applyDelta(tasksById, delta) ==
    IF delta = <<>> THEN tasksById
    ELSE applyDelta(IF delta[1].removed THEN tasksById \ {delta[1].id}
                    ELSE tasksById \cup {delta[1].id},
                    Slice(delta, 2, Len(delta)))

\* the page loop of the full sync (lines 170-173): removed tasks are
\* passed over
FullPage(tasksById, page) ==
    tasksById \cup {page[i].id : i \in {k \in 1..Len(page) : ~page[k].removed}}

\* the two files after saveTasksCache(tasksById, meta)
saveTasksCache(tasksById, meta) ==
    [cache |-> [readable |-> TRUE, version |-> CACHE_VERSION,
                tasksById |-> tasksById],
     meta |-> meta]

TasksCacheMeta(syncToken, lastFullSyncAt, lastSyncAt, tasksById) ==
    [readable |-> TRUE, version |-> CACHE_VERSION, syncToken |-> syncToken,
     lastFullSyncAt |-> lastFullSyncAt, lastSyncAt |-> lastSyncAt,
     taskCount |-> Cardinality(tasksById)]

\* the call begins (lines 112-137): the cache is loaded and a loop entered
SyncTasksCache(forceFull) ==
    /\ sync.pc = "idle"
    /\ \E existingCache \in {loadTasksCacheFile(cacheFiles)},
          existingMeta \in {loadTasksCacheMeta(cacheFiles)} :
          sync' = IF needsFull(forceFull, existingCache, existingMeta)
                  THEN [NoSync EXCEPT !.pc = "full"]
                  ELSE [NoSync EXCEPT
                           !.pc = "incremental",
                           !.cursor = existingMeta.syncToken,
                           !.token = existingMeta.syncToken,
                           !.tasksById = existingCache.tasksById,
                           !.lastFullSyncAt = existingMeta.lastFullSyncAt]
    /\ UNCHANGED <<now, keychain, cookies, indexedDB, tmpFiles, call, running,
                   cacheFiles>>

\* client.getTasks({ limit, syncToken: cursor }) is sent
GetTasks ==
    /\ sync.pc \in {"full", "incremental"}
    /\ ~sync.awaiting
    /\ sync' = [sync EXCEPT !.awaiting = TRUE, !.request = sync.cursor]
    /\ UNCHANGED <<now, keychain, cookies, indexedDB, tmpFiles, call, running,
                   cacheFiles>>

\* the request fails (NetworkError): the call rejects, nothing is saved
GetTasksFails ==
    /\ sync.awaiting
    /\ sync' = [sync EXCEPT !.awaiting = FALSE, !.pc = "failed"]
    /\ UNCHANGED <<now, keychain, cookies, indexedDB, tmpFiles, call, running,
                   cacheFiles>>

\* the full sync leaves its loop (lines 190-210)
FullSyncEnds(tasksById, lastSyncToken) ==
    /\ cacheFiles' = saveTasksCache(tasksById,
                         TasksCacheMeta(lastSyncToken, now, now, tasksById))
    /\ sync' = [sync EXCEPT !.awaiting = FALSE, !.pc = "done",
                            !.tasksById = tasksById,
                            !.token = lastSyncToken]

\* if (!resp.sync_token || resp.sync_token === cursor) break
TokenStuck(resp, cursor) == resp.sync_token = "" \/ resp.sync_token = cursor

\* one response in the loop of fullSyncTasksCache (lines 167-187)
FullSyncPage(resp) ==
    /\ sync.pc = "full"
    /\ sync.awaiting
    /\ \E tasksById \in {FullPage(sync.tasksById, resp.data)},
          lastSyncToken \in {IF resp.sync_token # "" THEN resp.sync_token
                              ELSE sync.token} :
          IF ~resp.has_next_page THEN FullSyncEnds(tasksById, lastSyncToken)
          ELSE IF TokenStuck(resp, sync.cursor)
          THEN FullSyncEnds(tasksById, lastSyncToken)
          ELSE IF sync.safety + 1 > SafetyLimit
          THEN FullSyncEnds(tasksById, lastSyncToken)
          ELSE /\ sync' = [sync EXCEPT !.awaiting = FALSE,
                                       !.tasksById = tasksById,
                                       !.token = lastSyncToken,
                                       !.cursor = resp.sync_token,
                                       !.safety = @ + 1]
               /\ UNCHANGED cacheFiles
    /\ UNCHANGED <<now, keychain, cookies, indexedDB, tmpFiles, call, running>>

\* the incremental sync leaves its loop and syncTasksCache saves
\* (lines 139-150)
IncrementalSyncEnds(tasksById, newToken) ==
    /\ cacheFiles' = saveTasksCache(tasksById,
                         TasksCacheMeta(newToken, sync.lastFullSyncAt, now,
                                        tasksById))
    /\ sync' = [sync EXCEPT !.awaiting = FALSE, !.pc = "done",
                            !.tasksById = tasksById, !.token = newToken]

\* one response in the loop of incrementalSyncTasksCache (lines 226-243)
IncrementalSyncPage(resp) ==
    /\ sync.pc = "incremental"
    /\ sync.awaiting
    /\ \E tasksById \in {applyDelta(sync.tasksById, resp.data)},
          newToken \in {IF resp.sync_token # "" THEN resp.sync_token
                         ELSE sync.token} :
          IF ~resp.has_next_page THEN IncrementalSyncEnds(tasksById, newToken)
          ELSE IF resp.sync_token # ""
          THEN /\ sync' = [sync EXCEPT !.awaiting = FALSE,
                                       !.tasksById = tasksById,
                                       !.token = newToken,
                                       !.cursor = resp.sync_token]
               /\ UNCHANGED cacheFiles
          ELSE IncrementalSyncEnds(tasksById, newToken)
    /\ UNCHANGED <<now, keychain, cookies, indexedDB, tmpFiles, call, running>>

\* what the server may answer
Task(id, removed) == [id |-> id, removed |-> removed]
SyncTokens == {"a", "b"}
Responses ==
    [data : {<<>>, <<Task(1, FALSE)>>, <<Task(1, TRUE)>>},
     sync_token : SyncTokens \cup {""},
     has_next_page : BOOLEAN]

\* what the cache directory may hold before the call
CacheStates ==
    {NoCacheFiles,
     saveTasksCache({1}, TasksCacheMeta("a", StartTime - 1, StartTime - 1, {1})),
     saveTasksCache({}, TasksCacheMeta("", StartTime - 1, StartTime - 1, {})),
     [saveTasksCache({1}, TasksCacheMeta("a", 1, 1, {1}))
         EXCEPT !.cache.version = 0],
     [saveTasksCache({1}, TasksCacheMeta("a", 1, 1, {1}))
         EXCEPT !.meta = NoCacheMeta]}

InitSync ==
    /\ now = StartTime
    /\ keychain = [b \in BrowserType |-> NoPassword]
    /\ cookies = [b \in BrowserType |-> NoCookieFile]
    /\ indexedDB = [b \in BrowserType |-> NoDirectory]
    /\ tmpFiles = {}
    /\ call = NoCall
    /\ running = NoneRunning
    /\ cacheFiles \in CacheStates
    /\ sync = NoSync

NextSync ==
    \/ \E forceFull \in BOOLEAN : SyncTasksCache(forceFull)
    \/ GetTasks
    \/ GetTasksFails
    \/ \E resp \in Responses : FullSyncPage(resp)
    \/ \E resp \in Responses : IncrementalSyncPage(resp)

SpecSync == InitSync /\ [][NextSync]_vars

\* the call runs on while it can: the continuation after an await runs
\* once the promise settles, and the server answers every request
SpecSyncFair == SpecSync /\ WF_vars(NextSync)

(***************************************************************************)
(* What the claims about the IndexedDB scanner refer to.                   *)
(***************************************************************************)
\* the expiry claim a token carries, read as RFC 7519 says: the middle
\* segment base64url-decoded, parsed as JSON, its numeric "exp" in seconds
ClaimedExpiry(jwt) ==
    LET parts == Split(jwt, 46)
        decoded == Base64UrlDecode(parts[2])
        payload == JSONParse(decoded.bytes)
        e == MemberExp(payload.obj, Len(payload.obj))
    IN  IF Len(parts) # 3 \/ ~decoded.ok \/ ~payload.ok THEN NoDate
        ELSE IF e = 0 \/ ~payload.obj[e].num THEN NoDate
        ELSE DateOf(payload.obj[e].v * 1000)

\* the matches in the files the scanner reads, in reading order
RECURSIVE MatchesOf(_, _)
MatchesOf(files, i) ==
    IF i > Len(files) THEN <<>>
    ELSE IF files[i].kind = "file"
            /\ (EndsWith(files[i].name, ExtLog) \/ EndsWith(files[i].name, ExtLdb))
    THEN MatchAll(Utf8Decode(files[i].content)) \o MatchesOf(files, i + 1)
    ELSE MatchesOf(files, i + 1)

Range(seq) == {seq[i] : i \in 1..Len(seq)}

ReturnedStrings == {call.tokens[i].token : i \in 1..Len(call.tokens)}

IndexedDBReturned == call.fn = "extractFromIndexedDB" /\ call.status = "ok"

\* C8: every match whose middle segment base64url-decodes to a JSON object
\* with an expiry earlier than the current time is discarded: no returned
\* token carries an expiry claim that was already past when the call began
C8_ExpiredMatchesDiscarded ==
    IndexedDBReturned =>
        \A i \in 1..Len(call.tokens) :
            ~IsExpired(ClaimedExpiry(call.tokens[i].token), call.start)

\* C9: extractFromIndexedDB returns exactly the non-expired matches (none
\* whose expiry claim was past when the call began, every one whose expiry
\* claim is absent or not yet past when the call ends), sorted by
\* descending expiry, tokens without an expiry after all tokens with one
C9_ExactlyNonExpiredSorted ==
    IndexedDBReturned =>
        /\ \A i \in 1..Len(call.tokens) :
              ~IsExpired(ClaimedExpiry(call.tokens[i].token), call.start)
        /\ \A m \in Range(MatchesOf(indexedDB[call.browser].files, 1)) :
              ~IsExpired(ClaimedExpiry(m), now) => m \in ReturnedStrings
        /\ ReturnedStrings \subseteq
              Range(MatchesOf(indexedDB[call.browser].files, 1))
        /\ \A i, j \in 1..Len(call.tokens) :
              i < j =>
                LET a == ClaimedExpiry(call.tokens[i].token)
                    b == ClaimedExpiry(call.tokens[j].token)
                IN  /\ b.kind = "date" => a.kind = "date"
                    /\ (a.kind = "date" /\ b.kind = "date") => a.ms >= b.ms

\* C10: in the list extractFromIndexedDB returns, no two entries have the
\* same token string
C10_NoDuplicateTokens ==
    IndexedDBReturned =>
        \A i, j \in 1..Len(call.tokens) :
            i # j => call.tokens[i].token # call.tokens[j].token

\* the same token string is written in two different files, and returned
C10_Witness ==
    /\ IndexedDBReturned
    /\ Len(indexedDB[call.browser].files) >= 2
    /\ \E i, j \in 1..Len(indexedDB[call.browser].files) :
          /\ i < j
          /\ \E m \in Range(MatchesOf(<<indexedDB[call.browser].files[i]>>, 1)) :
                /\ m \in Range(MatchesOf(<<indexedDB[call.browser].files[j]>>, 1))
                /\ m \in ReturnedStrings

(***************************************************************************)
(* What the claims about the cookie extractors refer to.                   *)
(***************************************************************************)
ChromeCalled == call.fn = "extractFromChrome"

\* the cookie store and the password of the browser the call was about
CalledStore == cookies[call.browser]
CalledPassword == getKeychainPassword(call.browser, keychain[call.browser])

\* the token strings returned, in order
ReturnedValues ==
    SubSeq([i \in 1..Len(call.tokens) |-> call.tokens[i].token],
           1, Len(call.tokens))

\* C2: whenever a call of extractFromChrome has ended, by a return or by
\* an exception, the temporary copy it made of the cookie store no longer
\* exists
C2_SnapshotRemoved == ChromeCalled => tmpFiles = {}

\* the values of the rows that resolve to one, in order
RECURSIVE ResolvedValues(_, _)
ResolvedValues(rows, key) ==
    IF rows = <<>> THEN <<>>
    ELSE With(RowValue(rows[1], key), LAMBDA v :
             (IF v.kind = "string" THEN <<v.str>> ELSE <<>>)
                \o ResolvedValues(Slice(rows, 2, Len(rows)), key))

\* C3: with a password and a readable database, extractFromChrome does
\* not raise whatever the rows hold, and returns a token for every
\* selected row that resolves to a value, skipping only the rows whose
\* decryption fails
C3_PerRowFaultIsolation ==
    (/\ ChromeCalled
     /\ CalledStore.exists
     /\ CalledStore.db = "sqlite"
     /\ ~PasswordMissing(CalledPassword)) =>
        /\ call.status = "ok"
        /\ ReturnedValues =
              ResolvedValues(SelectRows(CalledStore.rows),
                             deriveKey(CalledPassword.password))

\* a row of the application's session cookie, by the words of the filter:
\* the host contains akiflow.com and the name starts with remember_web_
RowMatches(row) ==
    /\ Includes(row.host_key, AKIFLOW_DOMAIN)
    /\ StartsWith(row.name, COOKIE_NAME_PATTERN)

SecretAbsent ==
    /\ ChromeCalled
    /\ CalledStore.exists
    /\ CalledStore.db = "sqlite"
    /\ keychain[call.browser].status = "absent"

C4_BoundsDiscipline ==
    (/\ call.fn = "extractFromSafari"
     /\ cookies[call.browser].exists
     /\ StartsWith(cookies[call.browser].bytes, SAFARI_MAGIC)) =>
        /\ call.status = "ok"
        /\ ~call.outside

(***************************************************************************)
(* What the claims about scanBrowsers and extractFromBrowser refer to.     *)
(***************************************************************************)
OrchestratorCalled == call.fn \in {"scanBrowsers", "extractFromBrowser"}

\* the calls of extractFromIndexedDB that returned at least one token
IndexedDBYields ==
    {i \in 1..Len(call.invoked) :
        /\ call.invoked[i].fn = "extractFromIndexedDB"
        /\ call.invoked[i].status = "ok"
        /\ call.invoked[i].tokens # <<>>}

\* C1: in scanBrowsers and extractFromBrowser, for a browser whose
\* IndexedDB scan returned at least one token, no cookie extractor is
\* invoked for that browser, that browser adds exactly the IndexedDB
\* tokens to the result, and the result is what the browsers added
C1_IndexedDBFirst ==
    OrchestratorCalled =>
        /\ \A i \in IndexedDBYields :
              /\ \A j \in 1..Len(call.invoked) :
                    call.invoked[j].browser = call.invoked[i].browser =>
                        call.invoked[j].fn \notin
                            {"extractFromChrome", "extractFromSafari"}
              /\ \E k \in 1..Len(call.pushed) :
                    /\ call.pushed[k].browser = call.invoked[i].browser
                    /\ call.pushed[k].tokens = call.invoked[i].tokens
                    /\ \A m \in 1..Len(call.pushed) :
                          call.pushed[m].browser = call.invoked[i].browser
                              => m = k
        /\ call.status = "ok" =>
              call.tokens =
                  ConcatAll(SubSeq([k \in 1..Len(call.pushed) |->
                                       call.pushed[k].tokens],
                                   1, Len(call.pushed)))

\* scanBrowsers returned, and a browser whose IndexedDB scan returned a
\* token also has a cookie store
C1_Witness ==
    /\ call.fn = "scanBrowsers"
    /\ call.status = "ok"
    /\ \E i \in IndexedDBYields : cookies[call.invoked[i].browser].exists

\* C6: every token scanBrowsers or extractFromBrowser returns has a token
\* string that is neither empty nor made of white space only
C6_TokenNeverBlank ==
    (OrchestratorCalled /\ call.status = "ok") =>
        \A i \in 1..Len(call.tokens) : Trim(call.tokens[i].token) # <<>>

\* C7: every token returned by extractFromIndexedDB, extractFromBrowser
\* or scanBrowsers that has an expiresAt was evaluated, once, and its
\* expiresAt is not earlier than the time at which it was evaluated
C7_NoExpiredTokenReturned ==
    (call.fn # "none" /\ call.status = "ok") =>
        \A i \in 1..Len(call.tokens) :
            call.tokens[i].expiresAt.kind = "date" =>
                /\ \E k \in 1..Len(call.admitted) :
                      /\ call.admitted[k].browser = call.tokens[i].browser
                      /\ call.admitted[k].token = call.tokens[i].token
                /\ \A k \in 1..Len(call.admitted) :
                      (/\ call.admitted[k].browser = call.tokens[i].browser
                       /\ call.admitted[k].token = call.tokens[i].token)
                          => call.tokens[i].expiresAt.ms >= call.admitted[k].at

\* scanBrowsers returned a token with an expiry that was evaluated after
\* the clock had advanced, from a directory that also held an expired one
C7_Witness ==
    /\ call.fn = "scanBrowsers"
    /\ call.status = "ok"
    /\ \E i \in 1..Len(call.tokens), k \in 1..Len(call.admitted) :
          /\ call.tokens[i].expiresAt.kind = "date"
          /\ call.admitted[k].token = call.tokens[i].token
          /\ call.admitted[k].browser = call.tokens[i].browser
          /\ call.admitted[k].at > call.start
          /\ \E m \in Range(MatchesOf(
                              indexedDB[call.tokens[i].browser].files, 1)) :
                m \notin ReturnedStrings

(***************************************************************************)
(* Fault isolation between the files of an IndexedDB directory.            *)
(***************************************************************************)
\* C11: when inspecting, reading or decoding one segment file fails (it
\* vanished or cannot be read between the listing and the access),
\* extractFromIndexedDB does not raise, and it returns the tokens of the
\* remaining files: every match in a readable segment file that is not
\* expired when the call ends
C11_PerFileFaultIsolation ==
    call.fn = "extractFromIndexedDB" =>
        /\ call.status = "ok"
        /\ \A m \in Range(MatchesOf(indexedDB[call.browser].files, 1)) :
              ~IsExpired(parseJWTExpiration(m), now) => m \in ReturnedStrings

(***************************************************************************)
(* Snapshots of concurrent invocations.                                    *)
(***************************************************************************)
\* C12: two invocations of extractFromChrome for the same browser that
\* run at the same time never use the same temporary snapshot path, so
\* the snapshot of an invocation that has made one and not yet removed it
\* is still there
C12_SnapshotNamesUnique ==
    /\ \A p, q \in Invocations :
          (/\ p # q
           /\ running[p].pc = "opened"
           /\ running[q].pc = "opened"
           /\ running[p].browser = running[q].browser) =>
              running[p].tempPath # running[q].tempPath
    /\ \A p \in Invocations :
          running[p].pc = "opened" => running[p].tempPath \in tmpFiles

(***************************************************************************)
(* The order and the content of what scanBrowsers returns.                 *)
(***************************************************************************)
RegistryOrder == <<"chrome", "arc", "brave", "edge", "safari">>

\* what the extractors returned for browser b during the call: the tokens
\* of its IndexedDB scan if there are any, else those of its cookie
\* extractor if it ran
ExtractedFor(b) ==
    LET idb == {i \in IndexedDBYields : call.invoked[i].browser = b}
        ck == {i \in 1..Len(call.invoked) :
                  /\ call.invoked[i].browser = b
                  /\ call.invoked[i].fn \in
                        {"extractFromChrome", "extractFromSafari"}}
    IN  IF idb # {} THEN call.invoked[CHOOSE i \in idb : TRUE].tokens
        ELSE IF ck # {} THEN call.invoked[CHOOSE i \in ck : TRUE].tokens
        ELSE <<>>

\* C13: scanBrowsers returns the results of the browsers concatenated in
\* registry order (chrome, arc, brave, edge, safari), each browser's
\* tokens whole and in the order its extractor returned them: nothing is
\* left out, merged or moved across browsers
C13_RegistryOrderNoDedup ==
    (call.fn = "scanBrowsers" /\ call.status = "ok") =>
        call.tokens =
            ConcatAll(SubSeq([k \in 1..Len(RegistryOrder) |->
                                 ExtractedFor(RegistryOrder[k])],
                             1, Len(RegistryOrder)))

\* scanBrowsers returned the same token string for two browsers, the
\* earlier browser of the registry first
C13_Witness ==
    /\ call.fn = "scanBrowsers"
    /\ call.status = "ok"
    /\ \E i, j \in 1..Len(call.tokens) :
          /\ i < j
          /\ call.tokens[i].token = call.tokens[j].token
          /\ call.tokens[i].browser = "chrome"
          /\ call.tokens[j].browser = "arc"

(***************************************************************************)
(* A browser without a secret-store entry, in a scan of all browsers.      *)
(***************************************************************************)
\* the calls of extractFromChrome, during the call, for a browser whose
\* secret-store lookup finds no entry
WithoutSecret ==
    {j \in 1..Len(call.invoked) :
        /\ call.invoked[j].fn = "extractFromChrome"
        /\ keychain[call.invoked[j].browser].status = "absent"}

\* the browser after b in the registry
NextInRegistry(b) ==
    RegistryOrder[1 + CHOOSE k \in 1..Len(RegistryOrder) : RegistryOrder[k] = b]

\* C14: in scanBrowsers, a browser b whose secret-store entry is missing
\* does not abort the scan: the cookie path of b returns the empty list
\* without raising, b adds nothing to the result, the scan goes on with
\* the browser after b, and when the scan returns, the tokens of every
\* later browser are in the result
C14_MissingSecretDoesNotAbort ==
    call.fn = "scanBrowsers" =>
        \A j \in WithoutSecret :
            /\ call.invoked[j].status = "ok"
            /\ call.invoked[j].tokens = <<>>
            /\ \A k \in 1..Len(call.pushed) :
                  call.pushed[k].browser = call.invoked[j].browser =>
                      call.pushed[k].tokens = <<>>
            /\ j < Len(call.invoked)
            /\ call.invoked[j + 1].fn = "extractFromIndexedDB"
            /\ call.invoked[j + 1].browser =
                  NextInRegistry(call.invoked[j].browser)
            /\ call.status = "ok" =>
                  \A i \in (j + 1)..Len(call.invoked) :
                      call.invoked[i].browser # call.invoked[j].browser =>
                          \A n \in 1..Len(call.invoked[i].tokens) :
                              \E m \in 1..Len(call.tokens) :
                                  call.tokens[m] = call.invoked[i].tokens[n]

\* scanBrowsers returned tokens of Arc after Chrome, which has a cookie
\* store with a matching row and no secret-store entry, added nothing
C14_Witness ==
    /\ call.fn = "scanBrowsers"
    /\ call.status = "ok"
    /\ \E j \in WithoutSecret :
          /\ call.invoked[j].browser = "chrome"
          /\ \E r \in 1..Len(cookies["chrome"].rows) :
                RowMatches(cookies["chrome"].rows[r])
    /\ \E m \in 1..Len(call.tokens) : call.tokens[m].browser = "arc"

(***************************************************************************)
(* A browser that is not installed.                                        *)
(***************************************************************************)
\* the browsers of the registry with neither a cookie store nor an
\* IndexedDB directory
NotInstalled ==
    {b \in BrowserType : ~cookies[b].exists /\ ~indexedDB[b].exists}

CookieExtractorRanFor(b) ==
    \E i \in 1..Len(call.invoked) :
        /\ call.invoked[i].browser = b
        /\ call.invoked[i].fn \in {"extractFromChrome", "extractFromSafari"}

\* C15: for a browser whose cookie store and IndexedDB directory are both
\* absent, extractFromBrowser returns the empty list without raising,
\* scanBrowsers adds nothing for it, and neither runs the browser's
\* cookie extractor (the only place where the secret store is queried
\* and a snapshot is made): no snapshot exists afterwards
C15_AbsentBrowserYieldsNothing ==
    /\ (call.fn = "extractFromBrowser" /\ call.browser \in NotInstalled) =>
          /\ call.status = "ok"
          /\ call.tokens = <<>>
          /\ ~CookieExtractorRanFor(call.browser)
          /\ tmpFiles = {}
    /\ call.fn = "scanBrowsers" =>
          \A b \in NotInstalled :
              /\ ~CookieExtractorRanFor(b)
              /\ \A k \in 1..Len(call.pushed) : call.pushed[k].browser # b
              /\ \A m \in 1..Len(call.tokens) : call.tokens[m].browser # b

\* extractFromBrowser returned for a Chromium browser that is not
\* installed
C15_Witness ==
    /\ call.fn = "extractFromBrowser"
    /\ call.browser \in NotInstalled
    /\ BrowserPathOf(call.browser).encryptionMethod = "pbkdf2"
    /\ Len(call.invoked) = 1

(***************************************************************************)
(* The secret-store lookup.                                                *)
(***************************************************************************)
\* C16: getKeychainPassword never throws: for a browser with no
\* configured service name, on a host without the secret-store facility,
\* and for a lookup that finds no entry, it returns null
C16_KeychainLookupNeverThrows ==
    call.fn = "getKeychainPassword" =>
        /\ call.status = "ok"
        /\ (\/ ~HasServiceName(call.browser)
            \/ keychain[call.browser].status \in {"absent", "unavailable"}) =>
              call.output.isNull

(***************************************************************************)
(* decryptChromeValue.                                                     *)
(***************************************************************************)
DecryptCalled == call.fn = "decryptChromeValue"

\* C17: for every plaintext P and password, decryptChromeValue of the tag
\* v10 or v11 followed by the AES-128-CBC encryption (IV of spaces) of the
\* PKCS#7-padded UTF-8 bytes of P, under the key of that password, returns
\* exactly P
C17_DecryptRoundTrip ==
    DecryptCalled =>
        \A pt \in Plaintexts, pw \in Passwords,
           tag \in {PrefixV10, PrefixV11} :
            (/\ call.input.key = deriveKey(pw)
             /\ call.input.encryptedValue = Sealed(tag, pw, pt)) =>
                call.output = [kind |-> "string", str |-> pt]

\* C18: decryptChromeValue of a value of 0, 1 or 2 bytes returns null and
\* does not throw, whatever the key
C18_ShortValueIsNull ==
    (DecryptCalled /\ Len(call.input.encryptedValue) < 3) =>
        /\ call.status = "ok"
        /\ call.output.kind = "null"

\* a value of two bytes, the beginning of a tag, was decrypted
C18_Witness ==
    /\ DecryptCalled
    /\ call.input.encryptedValue = SubSeq(PrefixV10, 1, 2)
    /\ call.output.kind = "null"

\* a value of at least three bytes that does not begin with v10 or v11
Untagged(v) ==
    /\ Len(v) >= 3
    /\ SubSeq(v, 1, 3) \notin {PrefixV10, PrefixV11}

\* C19: decryptChromeValue of a value of at least three bytes whose first
\* three are not a tag returns the bytes decoded as UTF-8 (an ASCII byte
\* as its character, a byte that is not valid UTF-8 as U+FFFD), with
\* nothing added or removed, the same for every key
C19_UntaggedPassesThrough ==
    (DecryptCalled /\ Untagged(call.input.encryptedValue)) =>
        /\ call.status = "ok"
        /\ call.output.kind = "string"
        /\ Len(call.output.str) = Len(call.input.encryptedValue)
        /\ \A i \in 1..Len(call.input.encryptedValue) :
              call.output.str[i] =
                  IF call.input.encryptedValue[i] < 128
                  THEN call.input.encryptedValue[i] ELSE 65533
        /\ \A pw \in Passwords :
              decryptChromeValue(call.input.encryptedValue, deriveKey(pw))
                  = call.output

\* a value that begins with v1 but with no tag, and holds whole cipher
\* blocks, was returned as it is
C19_Witness ==
    /\ DecryptCalled
    /\ Untagged(call.input.encryptedValue)
    /\ SubSeq(call.input.encryptedValue, 1, 2) = SubSeq(PrefixV10, 1, 2)
    /\ Len(call.input.encryptedValue) = 3 + CHROME_KEY_LENGTH
    /\ call.output.kind = "string"

(***************************************************************************)
(* extractFromSafari on files that follow the layout.                      *)
(***************************************************************************)
\* the files that follow the layout: every page begins with the marker
\* that reads 0x00000100 in little-endian order; with each, the records
\* it was made of
LaidOutFiles ==
    {[pages |-> pl, bytes |-> FileBytes(pl)] :
        pl \in {q \in PageLists(MaxPages, MaxCookies) :
                   \A k \in 1..Len(q) : q[k].marker = "le"}}

\* the value strings of the records of the session cookie, in page and
\* offset order
RECURSIVE SessionValues(_)
SessionValues(records) ==
    IF records = <<>> THEN <<>>
    ELSE (IF /\ \E k \in 0..(Len(records[1].domain) - Len(AKIFLOW_DOMAIN)) :
                   SubSeq(records[1].domain, k + 1, k + Len(AKIFLOW_DOMAIN))
                       = AKIFLOW_DOMAIN
             /\ Len(records[1].name) >= Len(COOKIE_NAME_PATTERN)
             /\ SubSeq(records[1].name, 1, Len(COOKIE_NAME_PATTERN))
                   = COOKIE_NAME_PATTERN
          THEN <<records[1].value>> ELSE <<>>)
            \o SessionValues(Slice(records, 2, Len(records)))

RecordsOf(pages) ==
    ConcatAll(SubSeq([k \in 1..Len(pages) |-> pages[k].cookies],
                     1, Len(pages)))

\* C20: on a file that follows the layout, extractFromSafari returns one
\* token for every record whose domain contains akiflow.com and whose
\* name starts with remember_web_, the token being the record's value
\* string, in page and offset order, and no token for any other record
C20_OneTokenPerSessionCookie ==
    call.fn = "extractFromSafari" =>
        \A f \in LaidOutFiles :
            (cookies[call.browser].exists
             /\ cookies[call.browser].bytes = f.bytes) =>
                /\ call.status = "ok"
                /\ ReturnedValues = SessionValues(RecordsOf(f.pages))
                /\ \A i \in 1..Len(call.tokens) :
                      call.tokens[i].browser = "safari"

\* a file of one page holding one session cookie with a value gave one
\* token, that value
C20_Witness ==
    /\ call.fn = "extractFromSafari"
    /\ \E f \in LaidOutFiles :
          /\ cookies[call.browser].bytes = f.bytes
          /\ Len(f.pages) = 1
          /\ Len(f.pages[1].cookies) = 1
          /\ ReturnedValues = <<f.pages[1].cookies[1].value>>
          /\ f.pages[1].cookies[1].value # <<>>

(***************************************************************************)
(* Files that are not binary cookie files.                                 *)
(***************************************************************************)
\* the first four bytes of the file are not exactly "cook"
NotCookieFormat(bytes) ==
    \/ Len(bytes) < Len(SAFARI_MAGIC)
    \/ SubSeq(bytes, 1, Len(SAFARI_MAGIC)) # SAFARI_MAGIC

\* C21: extractFromSafari on a byte sequence whose first four bytes are
\* not exactly the magic "cook" (the empty sequence and sequences of fewer
\* than four bytes among them) returns the empty list and does not throw
C21_ForeignFileIsEmpty ==
    (/\ call.fn = "extractFromSafari"
     /\ cookies[call.browser].exists
     /\ NotCookieFormat(cookies[call.browser].bytes)) =>
        /\ call.status = "ok"
        /\ call.tokens = <<>>

\* the parser returned for a file that begins with "Cook" and goes on as
\* a cookie file with a session cookie
C21_Witness ==
    /\ call.fn = "extractFromSafari"
    /\ call.status = "ok"
    /\ cookies[call.browser].bytes = Poke(SafariTemplate, 0, <<67, 111, 111, 107>>)

(***************************************************************************)
(* deriveKey.                                                              *)
(***************************************************************************)
DeriveCalled == call.fn = "deriveKey"

IsKey(k) ==
    /\ Len(k) = 16
    /\ \A i \in 1..Len(k) : k[i] \in 0..255

EqualUpToTrailingZeros(a, b) ==
    /\ \A i \in 1..Min(Len(a), Len(b)) : a[i] = b[i]
    /\ \A i \in (Len(b) + 1)..Len(a) : a[i] = 0
    /\ \A i \in (Len(a) + 1)..Len(b) : b[i] = 0

ReadableFrom(x, b) ==
    \/ x.token \in Range(MatchesOf(indexedDB[b].files, 1))
    \/ cookies[b].exists

\* C23: every token extractFromBrowser(b) returns has the browser field
\* b, and every token scanBrowsers returns has as browser field one of
\* the five registry identifiers, that of the browser which added it to
\* the result and from whose stores it was read
C23_TokenBrowserIsItsDescriptor ==
    (OrchestratorCalled /\ call.status = "ok") =>
        /\ call.fn = "extractFromBrowser" =>
              \A i \in 1..Len(call.tokens) :
                  call.tokens[i].browser = call.browser
        /\ \A i \in 1..Len(call.tokens) :
              /\ call.tokens[i].browser \in Range(RegistryOrder)
              /\ ReadableFrom(call.tokens[i], call.tokens[i].browser)
        /\ \A k \in 1..Len(call.pushed) :
              \A i \in 1..Len(call.pushed[k].tokens) :
                  call.pushed[k].tokens[i].browser = call.pushed[k].browser

\* scanBrowsers returned tokens of three browsers, and Arc's token is
\* not in Chrome's stores
C23_Witness ==
    /\ call.fn = "scanBrowsers"
    /\ call.status = "ok"
    /\ {"chrome", "arc", "safari"} \subseteq
          {call.tokens[i].browser : i \in 1..Len(call.tokens)}
    /\ \E i \in 1..Len(call.tokens) :
          /\ call.tokens[i].browser = "arc"
          /\ ~ReadableFrom(call.tokens[i], "chrome")

(***************************************************************************)
(* The fallback to the cookie extractors.                                  *)
(***************************************************************************)
\* the calls of extractFromIndexedDB that returned no token, for a
\* browser whose cookie store exists
CookieFallbacks ==
    {i \in 1..Len(call.invoked) :
        /\ call.invoked[i].fn = "extractFromIndexedDB"
        /\ call.invoked[i].status = "ok"
        /\ call.invoked[i].tokens = <<>>
        /\ cookies[call.invoked[i].browser].exists}

\* the cookie extractor of a browser, by the encryptionMethod of its
\* descriptor in the registry: pbkdf2 for the Chromium browsers, binary
\* for Safari
ExtractorOf(b) ==
    IF b \in {"chrome", "arc", "brave", "edge"} THEN "extractFromChrome"
    ELSE "extractFromSafari"

\* C24: when the IndexedDB scan yields no token for a browser whose
\* cookie store exists, the orchestrator calls exactly one cookie
\* extractor for it, right after the scan, the one its encryptionMethod
\* selects, and what that extractor returns is what the browser adds to
\* the result: its tokens, or its exception
C24_OneCookieExtractorByMethod ==
    OrchestratorCalled =>
        \A i \in CookieFallbacks :
            /\ i < Len(call.invoked)
            /\ call.invoked[i + 1].browser = call.invoked[i].browser
            /\ call.invoked[i + 1].fn = ExtractorOf(call.invoked[i].browser)
            /\ \A j \in 1..Len(call.invoked) :
                  (/\ call.invoked[j].browser = call.invoked[i].browser
                   /\ call.invoked[j].fn # "extractFromIndexedDB") => j = i + 1
            /\ IF call.invoked[i + 1].status = "ok"
               THEN /\ \E k \in 1..Len(call.pushed) :
                          /\ call.pushed[k].browser = call.invoked[i].browser
                          /\ call.pushed[k].tokens = call.invoked[i + 1].tokens
                          /\ \A m \in 1..Len(call.pushed) :
                                call.pushed[m].browser = call.invoked[i].browser
                                    => m = k
                    /\ (call.fn = "extractFromBrowser" /\ call.status = "ok") =>
                          call.tokens = call.invoked[i + 1].tokens
               ELSE call.status = "throw"

\* scanBrowsers ran both cookie extractors, Chrome's and Safari's, and
\* Safari's returned a token
C24_Witness ==
    /\ call.fn = "scanBrowsers"
    /\ call.status = "ok"
    /\ \E i, j \in CookieFallbacks :
          /\ call.invoked[i].browser = "chrome"
          /\ call.invoked[j].browser = "safari"
          /\ call.invoked[j + 1].tokens # <<>>

(***************************************************************************)
(* Pages without the marker.                                               *)
(***************************************************************************)
\* the files built page by page, some pages with the marker written in
\* the other byte order; with each, the pages it was made of
PagedFiles ==
    {[pages |-> pl, bytes |-> FileBytes(pl)] :
        pl \in PageLists(MaxPages, MaxCookies)}

\* the pages that begin with the marker
MarkedPages(pages) == SelectSeq(pages, LAMBDA page : page.marker = "le")

\* C25: a page whose first four bytes, read little-endian, are not
\* 0x00000100 adds no token and is skipped as a whole: the parser goes on
\* at the next page, so the tokens returned are those of the session
\* cookies of the pages that begin with the marker, the later ones too
C25_UnmarkedPageSkipped ==
    call.fn = "extractFromSafari" =>
        \A f \in PagedFiles :
            (cookies[call.browser].exists
             /\ cookies[call.browser].bytes = f.bytes) =>
                /\ call.status = "ok"
                /\ ReturnedValues =
                      SessionValues(RecordsOf(MarkedPages(f.pages)))

\* a file of two pages with a session cookie in each, the first page
\* without the marker: the token of the second page is returned
C25_Witness ==
    /\ call.fn = "extractFromSafari"
    /\ call.status = "ok"
    /\ \E f \in PagedFiles :
          /\ cookies[call.browser].bytes = f.bytes
          /\ Len(f.pages) = 2
          /\ f.pages[1].marker = "be"
          /\ f.pages[2].marker = "le"
          /\ SessionValues(f.pages[1].cookies) # <<>>
          /\ SessionValues(f.pages[2].cookies) # <<>>
          /\ ReturnedValues = SessionValues(f.pages[2].cookies)

\* the store has a database, the secret is there and the call returned
ChromeReturned ==
    /\ ChromeCalled
    /\ CalledStore.exists
    /\ CalledStore.db = "sqlite"
    /\ ~PasswordMissing(CalledPassword)
    /\ call.status = "ok"

\* C26: the tokens extractFromChrome returns are the values of exactly the
\* rows whose host contains "akiflow.com" and whose name starts with the
\* literal prefix "remember_web_": no row with another name becomes a token
C26_OnlyLiteralPrefixRows ==
    ChromeReturned =>
        ReturnedValues =
            ResolvedValues(SelectSeq(CalledStore.rows, RowMatches),
                           deriveKey(CalledPassword.password))

\* an encrypted value that is present but shorter than the version tag
ShortBlob(row) ==
    row.encrypted_value # <<>> /\ Len(row.encrypted_value) < 3

\* the database has rows, every one with such an encrypted value
OnlyShortBlobs ==
    /\ ChromeCalled
    /\ CalledStore.exists
    /\ CalledStore.db = "sqlite"
    /\ ~PasswordMissing(CalledPassword)
    /\ CalledStore.rows # <<>>
    /\ \A i \in 1..Len(CalledStore.rows) : ShortBlob(CalledStore.rows[i])

\* C27 as stated: a row whose encrypted value is present but shorter than
\* 3 bytes gives no token and raises nothing, its plaintext column being
\* left unread
C27_ShortBlobGivesNoToken ==
    OnlyShortBlobs => call.status = "ok" /\ call.tokens = <<>>

\* the plaintext values of the matching rows that have one, in order
RECURSIVE PlaintextValues(_)
PlaintextValues(rows) ==
    IF rows = <<>> THEN <<>>
    ELSE (IF RowSelected(rows[1]) /\ rows[1].value # <<>>
          THEN <<rows[1].value>> ELSE <<>>)
            \o PlaintextValues(Slice(rows, 2, Len(rows)))

\* C27 as the code has it: when every row has an encrypted value that is
\* absent or shorter than 3 bytes, extractFromChrome raises nothing and
\* returns the plaintext value of each selected row that has one: a short
\* encrypted value resolves to absent and the row falls back to its
\* plaintext column
C27_ShortBlobFallsBackToPlaintext ==
    (/\ ChromeCalled
     /\ CalledStore.exists
     /\ CalledStore.db = "sqlite"
     /\ ~PasswordMissing(CalledPassword)
     /\ \A i \in 1..Len(CalledStore.rows) :
           Len(CalledStore.rows[i].encrypted_value) < 3) =>
        /\ call.status = "ok"
        /\ ReturnedValues = PlaintextValues(CalledStore.rows)

\* a database of two rows with short encrypted values, one with a
\* plaintext value and one without: one token was returned
C27_Witness ==
    /\ OnlyShortBlobs
    /\ \E i, j \in 1..Len(CalledStore.rows) :
          /\ CalledStore.rows[i].value # <<>>
          /\ CalledStore.rows[j].value = <<>>
    /\ call.status = "ok"
    /\ Len(call.tokens) = 1

\* a step that ends a call of an orchestrator
OrchestratorEnds == call'.fn \in {"scanBrowsers", "extractFromBrowser"}

\* the call that ends repeats the one before it
SameCallAgain == call.fn = call'.fn /\ call.browser = call'.browser

\* no token of a store passes its expiry from the instant from to the
\* instant to: each is expired at both or at neither
NoExpiryBetween(from, to) ==
    \A b \in BrowserType :
        \A m \in Range(MatchesOf(indexedDB[b].files, 1)) :
            IsExpired(parseJWTExpiration(m), from)
                = IsExpired(parseJWTExpiration(m), to)

\* C28: a call of scanBrowsers or extractFromBrowser leaves the browser
\* stores and the secret store as they were and no snapshot in the temp
\* directory, and a second call over the same stores, no token passing its
\* expiry from the start of the first to the end of the second, ends as
\* the first did, with an equal list
C28_StatelessIdempotentRead ==
    [][OrchestratorEnds =>
          /\ keychain' = keychain
          /\ cookies' = cookies
          /\ indexedDB' = indexedDB
          /\ tmpFiles' = {}
          /\ (SameCallAgain /\ NoExpiryBetween(call.start, now')) =>
                /\ call'.status = call.status
                /\ call'.tokens = call.tokens]_vars

\* the calls extractFromBrowser(id) for the registered browsers from the
\* i-th on, one after another, each starting when and where the one before
\* it ended, their lists joined; the first that raises ends the sequence
RECURSIVE EachBrowserFrom(_, _, _, _)
EachBrowserFrom(i, e, acc, dt) ==
    IF i > Len(getAllBrowserPaths) \/ acc.status = "throw" THEN acc
    ELSE
        With(extractFromBrowser(getAllBrowserPaths[i].id, e, acc.t, acc.tmp,
                                dt),
             LAMBDA r :
                EachBrowserFrom(i + 1, e,
                    [status |-> r.status,
                     tokens |-> IF r.status = "throw" THEN <<>>
                                ELSE acc.tokens \o r.tokens,
                     t |-> r.t, tmp |-> r.tmp], dt))

\* C29: whatever the stores and the secret store hold, scanBrowsers ends
\* as the calls extractFromBrowser(id) over the five registered browsers
\* in registry order do: it raises when one of them raises, and otherwise
\* returns their lists joined in that order, the clock and the temp
\* directory being left the same
C29_ScanIsEachBrowserInOrder ==
    [][\A dt \in {0, MaxDrift} :
          ScanBrowsers(dt) =>
              \E r \in {EachBrowserFrom(1, env,
                            [status |-> "ok", tokens |-> <<>>, t |-> now,
                             tmp |-> tmpFiles], dt)} :
                  /\ call'.status = r.status
                  /\ call'.tokens = r.tokens
                  /\ now' = r.t
                  /\ tmpFiles' = r.tmp]_vars

\* scanBrowsers returned tokens of Chrome and of Safari
C29_Witness ==
    /\ call.fn = "scanBrowsers"
    /\ call.status = "ok"
    /\ \E i, j \in 1..Len(call.tokens) :
          /\ call.tokens[i].browser = "chrome"
          /\ call.tokens[j].browser = "safari"

\* C30: every call of syncTasksCache ends, by returning or by rejecting,
\* whatever the server answers: neither loop goes on requesting pages for
\* ever
C30_SyncTerminates == <>(sync.pc \in {"done", "failed"})

====
